---------------------------- MODULE Spec2Model ----------------------------
(***************************************************************************)
(* Model of the failure-pattern detector / escalation engine, of the      *)
(* recovery strategy selector and of the security audit pipeline of the    *)
(* coding agent.                                                           *)
(*                                                                         *)
(*   - smart-error-recovery.ts : smartErrorRecovery, selectRecoveryModel,  *)
(*     the process-wide map recoveryStates.                                *)
(*   - security-auditor/index.ts (second half of the file) : the           *)
(*     transcript grouper, calculateErrorRate, checkForStuckPattern,       *)
(*     shouldDiagnoseError, shouldUseSmartRecovery.                        *)
(*                                                                         *)
(*   - security-auditor/index.ts (first half), the node files under       *)
(*     security-auditor/nodes and the second half of                       *)
(*     smart-error-recovery.ts : the audit graph, its four nodes and the   *)
(*     report synthesizer.                                                 *)
(*                                                                         *)
(* Four specifications share the variables: SpecRecovery runs              *)
(* invocations of smartErrorRecovery (interleaved at their await points),  *)
(* SpecTranscript grows a transcript one message at a time and evaluates   *)
(* the pure decision functions on it, SpecAudit runs the audit graph node  *)
(* by node, and SpecAnalysis runs the loop of analyzeErrorPatterns message *)
(* by message.                                                             *)
(***************************************************************************)
EXTENDS Integers, Sequences, FiniteSets, TLC

VARIABLES
    recoveryStates,   \* Map<string, RecoveryState>; NoState where no entry exists
    pc,               \* per invocation slot: position inside smartErrorRecovery
    thread_id,        \* per slot: config.configurable?.thread_id of the invocation
    recoveryModel,    \* per slot: the local const recoveryModel (line 281)
    ord,              \* per slot (history): ordinal of the invocation among those of its key
    started,          \* per key (history): number of invocations entered so far
    selected,         \* per key (history): models selected by the invocations that passed the breaker
    lastReturn,       \* (history) what the most recently finished invocation gave its caller
    messages,         \* the transcript handed to the decision functions
    initialLen,       \* (history) length of the transcript the run started from
    stage,            \* the node of the audit graph that runs next, END after the last one
    state,            \* SecurityAuditorGraphState: the channels the audit nodes read and update
    nodesRun,         \* (history) the audit nodes that have run, in order
    prompts,          \* (history) what the audit nodes handed to model.invoke, in order
    rejected,         \* a rejection left an audit node: the run has ended with an error
    failures,         \* (history) the collaborator calls of the audit nodes that failed, as <<node, call>>
    analyzed,         \* the messages the loop of analyzeErrorPatterns has gone through, in order
    errorPatterns,    \* the local Map errorPatterns of analyzeErrorPatterns, in insertion order
    failedCommands,   \* the local array failedCommands of analyzeErrorPatterns
    analysis          \* the text analyzeErrorPatterns returns, "" while its loop runs

vars == <<recoveryStates, pc, thread_id, recoveryModel, ord, started, selected,
          lastReturn, messages, initialLen, stage, state, nodesRun, prompts, rejected,
          failures, analyzed, errorPatterns, failedCommands, analysis>>

transcriptVars == <<messages, initialLen>>

recoveryVars == <<recoveryStates, pc, thread_id, recoveryModel, ord, started,
                  selected, lastReturn>>

auditVars == <<stage, state, nodesRun, prompts, rejected, failures>>

analysisVars == <<analyzed, errorPatterns, failedCommands, analysis>>

-----------------------------------------------------------------------------
(* Bounds of the model *)

\* invocations entered per RecoveryState key
MaxInvocations == 7

\* messages appended to the transcript a run starts from
MaxAppend == 5

\* messages of the array one call of analyzeErrorPatterns goes through
MaxAnalyzed == 3

\* messages of such an array when it holds repeated failures only
MaxRepeated == 5

-----------------------------------------------------------------------------
(* The audit graph and its state: security-auditor/index.ts lines 29-44 and *)
(* security-auditor/types.ts                                                *)

\* the nodes of the workflow, and END of @langchain/langgraph
INITIALIZE == "initialize-security-audit"

SCAN == "scan-code-changes"

RECOMMEND == "generate-security-recommendations"

FINALIZE == "finalize-security-report"

END == "__end__"

\* the securityReport channel before any node has written it
NoReport == [absent |-> TRUE]

\* the channels at START: auditMessages defaults to [], the others are unset
\* (targetRepository.branch is an input of the run, drawn when it is read)
StartState ==
    [auditMessages |-> << >>, baseBranchName |-> "", changedFiles |-> "",
     scannedFiles |-> "", securityReport |-> NoReport]

-----------------------------------------------------------------------------
(* Recovery strategy selector: smart-error-recovery.ts *)

\* thread identifiers a caller may put in config.configurable.thread_id
ThreadIds == {"t1"}

\* config.configurable?.thread_id is undefined (or the empty string)
NoThreadId == ""

\* the key used when the configuration carries no thread identifier
DefaultKey == "default"

Keys == ThreadIds \cup {DefaultKey}

\* invocation slots: calls of smartErrorRecovery that may be in progress together
Procs == {"p1", "p2"}

NoState == [absent |-> TRUE]

\* enum LLMTask, the three members the rotation uses
PROGRAMMER == "programmer"
PLANNER    == "planner"
SUMMARIZER == "summarizer"

\* const modelRotation = [PROGRAMMER, PLANNER, SUMMARIZER]; JS index i is TLA+ index i+1
modelRotation == <<PROGRAMMER, PLANNER, SUMMARIZER>>

\* the circuit breaker's retry budget: if (recoveryState.retryCount > 5)
MaxRecoveryAttempts == 5

\* variant: every invocation is keyed on "default", whatever its thread id
C7_threadIdAlwaysDefault(tid) == DefaultKey

\* variant: an invocation without thread id is keyed on a thread of its own
C38_threadIdNeverDefault(tid) == IF tid = NoThreadId THEN "t1" ELSE tid

\* const threadId = config.configurable?.thread_id || "default"
threadIdOf(tid) == IF tid = NoThreadId THEN DefaultKey ELSE tid

\* the state a first invocation creates lazily
freshRecoveryState == [retryCount |-> 0, lastModelUsed |-> SUMMARIZER]

\* variant: the state is built afresh on every call, the stored one never read
C4_getOrCreateAlwaysFresh(key) == freshRecoveryState

\* recoveryStates.get(threadId), created when missing
getOrCreate(key) ==
    IF recoveryStates[key] = NoState THEN freshRecoveryState ELSE recoveryStates[key]

\* variant: the rotation advances every second retry only
C3_selectEverySecond(retryCount) ==
    modelRotation[((retryCount \div 2) % Len(modelRotation)) + 1]

\* modelRotation[retryCount % modelRotation.length]
selectRecoveryModel(retryCount) ==
    modelRotation[(retryCount % Len(modelRotation)) + 1]

\* variant: the breaker never trips
C32_breakerNeverTrips(retryCount) == retryCount < 0

\* variant: the breaker compares with >= instead of >
C1_breakerOffByOne(retryCount) == retryCount >= MaxRecoveryAttempts

\* if (recoveryState.retryCount > 5)
circuitBreakerTripped(retryCount) == retryCount > MaxRecoveryAttempts

NoReturn == [kind |-> "none"]

\* return { messages: [helpMessage], ... }: one agent message with a
\* request_human_help tool call; the model is not called (lines 244-266)
helpOutcome(tid, k, retryCount) ==
    [kind |-> "returned", thread_id |-> tid, ord |-> k, response |-> "not_called",
     messages |-> << [role |-> "ai", tool_call |-> "request_human_help",
                      retry_count |-> retryCount] >>]

\* return { messages: [response, toolMessage], ... } (lines 333-350)
successOutcome(tid, k, retryCount, model) ==
    [kind |-> "returned", thread_id |-> tid, ord |-> k, response |-> "tool_call",
     messages |-> << [role |-> "ai", tool_call |-> "diagnose_error"],
                     [role |-> "tool", name |-> "diagnose_error", status |-> "success",
                      is_diagnosis |-> TRUE, is_smart_recovery |-> TRUE,
                      retry_count |-> retryCount, model_used |-> model] >>]

\* the promise rejects: the caller gets an error and no messages; response is
\* what the collaborator had given
thrownOutcome(tid, k, response) ==
    [kind |-> "threw", thread_id |-> tid, ord |-> k, response |-> response,
     messages |-> << >>]

\* smartErrorRecovery after modelWithTools.invoke has settled (lines 318-350):
\* the state it leaves and what its caller gets. rs is the RecoveryState as
\* it is now, model the local recoveryModel.
C5_finishSilently(tid, k, rs, model, response) ==
    IF response = "rejected"
    THEN [state |-> rs, ret |-> thrownOutcome(tid, k, response)]
    ELSE [state |-> [rs EXCEPT !.lastModelUsed = model],
          ret   |-> [kind |-> "returned", thread_id |-> tid, ord |-> k,
                     response |-> response,
                     messages |-> IF response = "tool_call"
                                  THEN successOutcome(tid, k, rs.retryCount, model).messages
                                  ELSE << >>]]

finish(tid, k, rs, model, response) ==
    IF response = "tool_call"
    THEN [state |-> [rs EXCEPT !.lastModelUsed = model],
          ret   |-> successOutcome(tid, k, rs.retryCount, model)]
    ELSE [state |-> rs, ret |-> thrownOutcome(tid, k, response)]

\* the process after module load: an empty map, no call in progress; the
\* transcript is empty
InitRecovery ==
    /\ recoveryStates = [k \in Keys |-> NoState]
    /\ pc = [p \in Procs |-> "idle"]
    /\ thread_id = [p \in Procs |-> NoThreadId]
    /\ recoveryModel = [p \in Procs |-> SUMMARIZER]
    /\ ord = [p \in Procs |-> 0]
    /\ started = [k \in Keys |-> 0]
    /\ selected = [k \in Keys |-> << >>]
    /\ lastReturn = NoReturn
    /\ messages = << >>
    /\ initialLen = 0
    /\ stage = END
    /\ state = StartState
    /\ nodesRun = << >>
    /\ prompts = << >>
    /\ rejected = FALSE
    /\ failures = {}
    /\ analyzed = << >>
    /\ errorPatterns = << >>
    /\ failedCommands = << >>
    /\ analysis = ""

\* smartErrorRecovery, from its entry to its first await (lines 227-288): the
\* lookup or creation of the state, the increment, the circuit breaker, and
\* the choice of the model; all of it synchronous.
Enter(p, tid) ==
    LET key == threadIdOf(tid)
        old == getOrCreate(key)
        rs  == [old EXCEPT !.retryCount = @ + 1]
        k   == started[key] + 1
    IN  /\ pc[p] = "idle"
        /\ started[key] < MaxInvocations
        /\ started' = [started EXCEPT ![key] = k]
        /\ recoveryStates' = [recoveryStates EXCEPT ![key] = rs]
        /\ thread_id' = [thread_id EXCEPT ![p] = tid]
        /\ IF circuitBreakerTripped(rs.retryCount)
           THEN /\ lastReturn' = helpOutcome(tid, k, rs.retryCount)
                /\ UNCHANGED <<pc, recoveryModel, ord, selected>>
           ELSE /\ recoveryModel' = [recoveryModel EXCEPT ![p] = selectRecoveryModel(rs.retryCount)]
                /\ pc' = [pc EXCEPT ![p] = "loadModel"]
                /\ ord' = [ord EXCEPT ![p] = k]
                /\ selected' = [selected EXCEPT ![key] = Append(@, recoveryModel'[p])]
                /\ UNCHANGED lastReturn
    /\ UNCHANGED <<transcriptVars, auditVars, analysisVars>>

\* const model = await loadModel(config, recoveryModel) resolves or rejects (line 288)
LoadModel(p, ok) ==
    /\ pc[p] = "loadModel"
    /\ IF ok
       THEN /\ pc' = [pc EXCEPT ![p] = "invoke"]
            /\ UNCHANGED lastReturn
       ELSE /\ pc' = [pc EXCEPT ![p] = "idle"]
            /\ lastReturn' = thrownOutcome(thread_id[p], ord[p], "load_model_rejected")
    /\ UNCHANGED <<recoveryStates, thread_id, recoveryModel, ord, started, selected, transcriptVars, auditVars, analysisVars>>

\* await modelWithTools.invoke(...) settles and the function runs to its end
\* (lines 301-350): response is what the collaborator gave.
Invoke(p, response) ==
    LET key == threadIdOf(thread_id[p])
        end == finish(thread_id[p], ord[p], recoveryStates[key], recoveryModel[p], response)
    IN  /\ pc[p] = "invoke"
        /\ pc' = [pc EXCEPT ![p] = "idle"]
        /\ recoveryStates' = [recoveryStates EXCEPT ![key] = end.state]
        /\ lastReturn' = end.ret
        /\ UNCHANGED <<thread_id, recoveryModel, ord, started, selected, transcriptVars, auditVars, analysisVars>>

NextRecovery ==
    \/ \E p \in Procs, tid \in ThreadIds \cup {NoThreadId} : Enter(p, tid)
    \/ \E p \in Procs, ok \in BOOLEAN : LoadModel(p, ok)
    \/ \E p \in Procs, r \in {"tool_call", "no_tool_call", "rejected"} : Invoke(p, r)

SpecRecovery == InitRecovery /\ [][NextRecovery]_vars

-----------------------------------------------------------------------------
(* Transcript grouper and analyzer: security-auditor/index.ts, lines 44-291 *)

\* the kinds of message a transcript is built from; the id is the position
\* the message gets when it is appended (the identity of the message object)
KindAi       == [role |-> "ai",    status |-> "unset",   name |-> "",      is_diagnosis |-> FALSE]
KindHuman    == [role |-> "human", status |-> "unset",   name |-> "",      is_diagnosis |-> FALSE]
KindOk       == [role |-> "tool",  status |-> "success", name |-> "shell", is_diagnosis |-> FALSE]
KindErrShell == [role |-> "tool",  status |-> "error",   name |-> "shell", is_diagnosis |-> FALSE]
KindErrGrep  == [role |-> "tool",  status |-> "error",   name |-> "grep",  is_diagnosis |-> FALSE]
KindDiag     == [role |-> "tool",  status |-> "success", name |-> "diagnose_error",
                 is_diagnosis |-> TRUE]

MessageKinds == {KindAi, KindHuman, KindOk, KindErrShell, KindErrGrep, KindDiag}

withId(kind, i) ==
    [id |-> i, role |-> kind.role, status |-> kind.status, name |-> kind.name,
     is_diagnosis |-> kind.is_diagnosis]

isAIMessage(m) == m.role = "ai"

isToolMessage(m) == m.role = "tool"

\* Array.prototype.slice(-n): the last n elements, all of them when there are fewer
sliceLast(s, n) == IF Len(s) <= n THEN s ELSE SubSeq(s, Len(s) - n + 1, Len(s))

\* Array.prototype.slice(0, n): the first n elements, all of them when there are fewer
sliceFirst(s, n) == IF Len(s) <= n THEN s ELSE SubSeq(s, 1, n)

\* if (currentGroup.length > 0) groups.push([...currentGroup])
pushGroup(groups, currentGroup) ==
    IF Len(currentGroup) > 0 THEN Append(groups, currentGroup) ELSE groups

\* the locals of the grouping loops before the first iteration
loopStart == [groups |-> << >>, currentGroup |-> << >>, processingToolsForAI |-> FALSE]

\* variant: an agent message saves the current group without starting a new one
C14_groupStepKeepsCurrentGroup(l, message) ==
    IF isAIMessage(message)
    THEN [groups |-> pushGroup(l.groups, l.currentGroup), currentGroup |-> l.currentGroup,
          processingToolsForAI |-> TRUE]
    ELSE IF isToolMessage(message) /\ l.processingToolsForAI /\ ~message.is_diagnosis
    THEN [l EXCEPT !.currentGroup = Append(@, message)]
    ELSE IF ~isToolMessage(message) /\ l.processingToolsForAI
    THEN [groups |-> pushGroup(l.groups, l.currentGroup), currentGroup |-> << >>,
          processingToolsForAI |-> FALSE]
    ELSE l

\* variant: a diagnosis-flagged tool message ends the collecting like any
\* message that is not collected
C29_groupStepDiagnosisCloses(l, message) ==
    IF isAIMessage(message)
    THEN [groups |-> pushGroup(l.groups, l.currentGroup), currentGroup |-> << >>,
          processingToolsForAI |-> TRUE]
    ELSE IF isToolMessage(message) /\ l.processingToolsForAI /\ ~message.is_diagnosis
    THEN [l EXCEPT !.currentGroup = Append(@, message)]
    ELSE IF l.processingToolsForAI
    THEN [groups |-> pushGroup(l.groups, l.currentGroup), currentGroup |-> << >>,
          processingToolsForAI |-> FALSE]
    ELSE l

\* one iteration of the loop of groupToolMessagesByAIMessage on its locals
\* groups, currentGroup and processingToolsForAI (lines 66-90)
groupStep(l, message) ==
    IF isAIMessage(message)
    THEN [groups |-> pushGroup(l.groups, l.currentGroup), currentGroup |-> << >>,
          processingToolsForAI |-> TRUE]
    ELSE IF isToolMessage(message) /\ l.processingToolsForAI /\ ~message.is_diagnosis
    THEN [l EXCEPT !.currentGroup = Append(@, message)]
    ELSE IF ~isToolMessage(message) /\ l.processingToolsForAI
    THEN [groups |-> pushGroup(l.groups, l.currentGroup), currentGroup |-> << >>,
          processingToolsForAI |-> FALSE]
    ELSE l

\* the loop over all messages, then the push of the last group (lines 92-97)
groupToolMessagesByAIMessage(msgs) ==
    LET after[i \in 0..Len(msgs)] ==
            IF i = 0 THEN loopStart ELSE groupStep(after[i - 1], msgs[i])
        end == after[Len(msgs)]
    IN  pushGroup(end.groups, end.currentGroup)

\* one iteration of the same loop inside hasRecentDiagnosisToolCall, which
\* keeps the diagnosis-flagged tool messages (lines 125-140)
historyStep(l, message) ==
    IF isAIMessage(message)
    THEN [groups |-> pushGroup(l.groups, l.currentGroup), currentGroup |-> << >>,
          processingToolsForAI |-> TRUE]
    ELSE IF isToolMessage(message) /\ l.processingToolsForAI
    THEN [l EXCEPT !.currentGroup = Append(@, message)]
    ELSE IF ~isToolMessage(message) /\ l.processingToolsForAI
    THEN [groups |-> pushGroup(l.groups, l.currentGroup), currentGroup |-> << >>,
          processingToolsForAI |-> FALSE]
    ELSE l

\* allGroups of hasRecentDiagnosisToolCall when its loop has ended (lines 121-147)
historyGroups(msgs) ==
    LET after[i \in 0..Len(msgs)] ==
            IF i = 0 THEN loopStart ELSE historyStep(after[i - 1], msgs[i])
        end == after[Len(msgs)]
    IN  pushGroup(end.groups, end.currentGroup)

\* variant: only the last group of the history is searched for a diagnosis
C34_recentDiagnosisInLastGroupOnly(msgs, groupCount) ==
    LET recentGroups == sliceLast(historyGroups(msgs), 1)
    IN  \E g \in 1..Len(recentGroups) :
            \E j \in 1..Len(recentGroups[g]) : recentGroups[g][j].is_diagnosis

hasRecentDiagnosisToolCall(msgs, groupCount) ==
    LET recentGroups == sliceLast(historyGroups(msgs), groupCount)
    IN  \E g \in 1..Len(recentGroups) :
            \E j \in 1..Len(recentGroups[g]) : recentGroups[g][j].is_diagnosis

\* group.filter((m) => m.status === "error").length
errorCount(group) == Cardinality({j \in 1..Len(group) : group[j].status = "error"})

\* variant: the rate counts the successful messages
C15_rateOfSuccesses(group) ==
    IF Len(group) = 0 THEN <<0, 1>>
    ELSE <<Cardinality({j \in 1..Len(group) : group[j].status = "success"}), Len(group)>>

\* calculateErrorRate: the quotient errorCount / group.length, kept as the
\* fraction <<numerator, denominator>>; 0 for an empty group
calculateErrorRate(group) ==
    IF Len(group) = 0 THEN <<0, 1>> ELSE <<errorCount(group), Len(group)>>

\* rate >= percent / 100, for a fraction rate
rateAtLeast(rate, percent) == 100 * rate[1] >= percent * rate[2]

\* the window of checkForStuckPattern: messages.slice(-10)
StuckWindow == 10

\* a command key reaching this count in the window means stuck: count >= 3
StuckCount == 3

\* next.name || "unknown_command"
commandKeyOf(m) == IF m.name = "" THEN "unknown_command" ELSE m.name

\* variant: every error tool-result of the window is tallied, whatever precedes it
C16_stuckCountsEveryError(msgs) ==
    LET recentMessages == sliceLast(msgs, StuckWindow)
        pairs == {i \in 1..(Len(recentMessages) - 1) :
                     /\ isToolMessage(recentMessages[i + 1])
                     /\ recentMessages[i + 1].status = "error"}
        commandKeys == {commandKeyOf(recentMessages[i + 1]) : i \in pairs}
        commandCounts(c) == Cardinality({i \in pairs : commandKeyOf(recentMessages[i + 1]) = c})
    IN  \E c \in commandKeys : commandCounts(c) >= StuckCount

checkForStuckPattern(msgs) ==
    LET recentMessages == sliceLast(msgs, StuckWindow)
        pairs == {i \in 1..(Len(recentMessages) - 1) :
                     /\ isAIMessage(recentMessages[i])
                     /\ isToolMessage(recentMessages[i + 1])
                     /\ recentMessages[i + 1].status = "error"}
        commandKeys == {commandKeyOf(recentMessages[i + 1]) : i \in pairs}
        commandCounts(c) == Cardinality({i \in pairs : commandKeyOf(recentMessages[i + 1]) = c})
    IN  \E c \in commandKeys : commandCounts(c) >= StuckCount

\* lastN.every((group) => calculateErrorRate(group) >= threshold)
everyRateAtLeast(groups, percent) ==
    \A g \in 1..Len(groups) : rateAtLeast(calculateErrorRate(groups[g]), percent)

\* the thresholds, in percent: IMMEDIATE_THRESHOLD = 0.5, ERROR_THRESHOLD = 0.6,
\* highErrorThreshold = 0.8
ERROR_THRESHOLD == 60

\* variant: the two-group rule tests against the three-group threshold
C8_immediateUsesErrorThreshold == ERROR_THRESHOLD

IMMEDIATE_THRESHOLD == 50

\* variant: the high-error rule tests against the two-group threshold
C10_highUsesImmediateThreshold == IMMEDIATE_THRESHOLD

highErrorThreshold == 80

\* hasRecentDiagnosisToolCall(messages, 2)
CooldownGroups == 2

\* variant: the stuck pattern is tested before the diagnosis cooldown
C9_diagnoseStuckBeforeCooldown(msgs) ==
    LET toolGroups == groupToolMessagesByAIMessage(msgs) IN
    IF Len(toolGroups) < 2 THEN FALSE
    ELSE IF checkForStuckPattern(msgs) THEN TRUE
    ELSE IF hasRecentDiagnosisToolCall(msgs, CooldownGroups) THEN FALSE
    ELSE IF Len(toolGroups) >= 2 /\ everyRateAtLeast(sliceLast(toolGroups, 2), IMMEDIATE_THRESHOLD)
         THEN TRUE
    ELSE IF Len(toolGroups) >= 3
         THEN everyRateAtLeast(sliceLast(toolGroups, 3), ERROR_THRESHOLD)
    ELSE FALSE

\* variant: ordinary diagnosis does not consult the stuck pattern
C13_diagnoseWithoutStuckRule(msgs) ==
    LET toolGroups == groupToolMessagesByAIMessage(msgs) IN
    IF Len(toolGroups) < 2 THEN FALSE
    ELSE IF hasRecentDiagnosisToolCall(msgs, CooldownGroups) THEN FALSE
    ELSE IF Len(toolGroups) >= 2 /\ everyRateAtLeast(sliceLast(toolGroups, 2), IMMEDIATE_THRESHOLD)
         THEN TRUE
    ELSE IF Len(toolGroups) >= 3
         THEN everyRateAtLeast(sliceLast(toolGroups, 3), ERROR_THRESHOLD)
    ELSE FALSE

\* variant: the rule on the last 2 groups is left out
C35_diagnoseWithoutImmediateRule(msgs) ==
    LET toolGroups == groupToolMessagesByAIMessage(msgs) IN
    IF Len(toolGroups) < 2 THEN FALSE
    ELSE IF hasRecentDiagnosisToolCall(msgs, CooldownGroups) THEN FALSE
    ELSE IF checkForStuckPattern(msgs) THEN TRUE
    ELSE IF Len(toolGroups) >= 3
         THEN everyRateAtLeast(sliceLast(toolGroups, 3), ERROR_THRESHOLD)
    ELSE FALSE

shouldDiagnoseError(msgs) ==
    LET toolGroups == groupToolMessagesByAIMessage(msgs) IN
    IF Len(toolGroups) < 2 THEN FALSE
    ELSE IF hasRecentDiagnosisToolCall(msgs, CooldownGroups) THEN FALSE
    ELSE IF checkForStuckPattern(msgs) THEN TRUE
    ELSE IF Len(toolGroups) >= 2 /\ everyRateAtLeast(sliceLast(toolGroups, 2), IMMEDIATE_THRESHOLD)
         THEN TRUE
    ELSE IF Len(toolGroups) >= 3
         THEN everyRateAtLeast(sliceLast(toolGroups, 3), ERROR_THRESHOLD)
    ELSE FALSE

\* the window in which shouldUseSmartRecovery counts diagnosis attempts: messages.slice(-20)
DiagnosisWindow == 20

\* messages.slice(-20).filter(msg => isToolMessage(msg) && msg.additional_kwargs?.is_diagnosis).length
recentDiagnosisCount(msgs) ==
    LET recent == sliceLast(msgs, DiagnosisWindow)
    IN  Cardinality({i \in 1..Len(recent) : isToolMessage(recent[i]) /\ recent[i].is_diagnosis})

\* variant: the count of earlier diagnosis attempts is not consulted
C11_smartWithoutDiagnosisTrigger(msgs) ==
    LET toolGroups == groupToolMessagesByAIMessage(msgs) IN
    IF Len(toolGroups) < 2 THEN FALSE
    ELSE IF Len(toolGroups) >= 3 /\ everyRateAtLeast(sliceLast(toolGroups, 3), highErrorThreshold)
         THEN TRUE
    ELSE checkForStuckPattern(msgs)

\* variant: the high-error rule asks for a fourth group
C12_smartHighNeedsFourGroups(msgs) ==
    LET toolGroups == groupToolMessagesByAIMessage(msgs) IN
    IF Len(toolGroups) < 2 THEN FALSE
    ELSE IF recentDiagnosisCount(msgs) >= 2 THEN TRUE
    ELSE IF Len(toolGroups) >= 4 /\ everyRateAtLeast(sliceLast(toolGroups, 3), highErrorThreshold)
         THEN TRUE
    ELSE checkForStuckPattern(msgs)

\* variant: smart recovery does not consult the stuck pattern
C36_smartWithoutStuckRule(msgs) ==
    LET toolGroups == groupToolMessagesByAIMessage(msgs) IN
    IF Len(toolGroups) < 2 THEN FALSE
    ELSE IF recentDiagnosisCount(msgs) >= 2 THEN TRUE
    ELSE Len(toolGroups) >= 3 /\ everyRateAtLeast(sliceLast(toolGroups, 3), highErrorThreshold)

shouldUseSmartRecovery(msgs) ==
    LET toolGroups == groupToolMessagesByAIMessage(msgs) IN
    IF Len(toolGroups) < 2 THEN FALSE
    ELSE IF recentDiagnosisCount(msgs) >= 2 THEN TRUE
    ELSE IF Len(toolGroups) >= 3 /\ everyRateAtLeast(sliceLast(toolGroups, 3), highErrorThreshold)
         THEN TRUE
    ELSE checkForStuckPattern(msgs)

\* a long-running conversation, as kinds: two early diagnoses, two
\* successful steps, then the same command failing three times in a row
LongHistoryKinds ==
    << KindAi, KindDiag, KindAi, KindDiag, KindHuman,
       KindAi, KindOk, KindHuman,
       KindAi, KindOk, KindOk, KindHuman,
       KindAi, KindErrShell, KindAi, KindErrShell, KindAi, KindErrShell >>

\* a conversation that has just begun: the request and the agent's first turn
ShortHistoryKinds == << KindHuman, KindAi >>

\* the transcripts a run starts from: a new conversation, the short and the
\* long one
InitialTranscripts ==
    { << >>,
      [i \in 1..Len(ShortHistoryKinds) |-> withId(ShortHistoryKinds[i], i)],
      [i \in 1..Len(LongHistoryKinds) |-> withId(LongHistoryKinds[i], i)] }

\* the transcript the orchestration layer hands over at the start of a run;
\* no smartErrorRecovery call is in progress
InitTranscript ==
    /\ recoveryStates = [k \in Keys |-> NoState]
    /\ pc = [p \in Procs |-> "idle"]
    /\ thread_id = [p \in Procs |-> NoThreadId]
    /\ recoveryModel = [p \in Procs |-> SUMMARIZER]
    /\ ord = [p \in Procs |-> 0]
    /\ started = [k \in Keys |-> 0]
    /\ selected = [k \in Keys |-> << >>]
    /\ lastReturn = NoReturn
    /\ messages \in InitialTranscripts
    /\ initialLen = Len(messages)
    /\ stage = END
    /\ state = StartState
    /\ nodesRun = << >>
    /\ prompts = << >>
    /\ rejected = FALSE
    /\ failures = {}
    /\ analyzed = << >>
    /\ errorPatterns = << >>
    /\ failedCommands = << >>
    /\ analysis = ""

\* the orchestration layer appends one message to the transcript
AppendMessage(kind) ==
    /\ Len(messages) < initialLen + MaxAppend
    /\ messages' = Append(messages, withId(kind, Len(messages) + 1))
    /\ UNCHANGED <<recoveryVars, initialLen, auditVars, analysisVars>>

NextTranscript == \E kind \in MessageKinds : AppendMessage(kind)

SpecTranscript == InitTranscript /\ [][NextTranscript]_vars

-----------------------------------------------------------------------------
(* JavaScript string operations used by the audit nodes; a string is a     *)
(* sequence of UTF-16 code units, and the texts of the model are ASCII     *)

upperCaseLetters == "ABCDEFGHIJKLMNOPQRSTUVWXYZ"

lowerCaseLetters == "abcdefghijklmnopqrstuvwxyz"

\* the code unit c mapped through the alphabet from onto the alphabet to
mapLetter(c, from, to) ==
    IF \E i \in 1..Len(from) : SubSeq(from, i, i) = c
    THEN LET i == CHOOSE i \in 1..Len(from) : SubSeq(from, i, i) = c IN SubSeq(to, i, i)
    ELSE c

\* every code unit of s mapped through the alphabets, halves joined so that
\* the evaluation nests no deeper than the logarithm of the length
mapCodeUnits(s, from, to) ==
    LET mapped[lo \in 1..(Len(s) + 1), hi \in 0..Len(s)] ==
            IF lo > hi THEN ""
            ELSE IF lo = hi THEN mapLetter(SubSeq(s, lo, lo), from, to)
            ELSE mapped[lo, (lo + hi) \div 2] \o mapped[((lo + hi) \div 2) + 1, hi]
    IN  mapped[1, Len(s)]

\* String.prototype.toLowerCase
toLowerCase(s) == mapCodeUnits(s, upperCaseLetters, lowerCaseLetters)

\* String.prototype.toUpperCase
toUpperCase(s) == mapCodeUnits(s, lowerCaseLetters, upperCaseLetters)

\* String.prototype.includes
includes(s, searchString) ==
    \E i \in 1..(Len(s) - Len(searchString) + 1) :
        SubSeq(s, i, i + Len(searchString) - 1) = searchString

\* the code units that \s and trim() treat as white space
isWhiteSpace(c) == c \in {" ", "\n", "\t", "\r"}

\* String.prototype.trim
trim(s) ==
    LET inked == {i \in 1..Len(s) : ~isWhiteSpace(SubSeq(s, i, i))}
        first == CHOOSE i \in inked : \A j \in inked : i <= j
        last  == CHOOSE i \in inked : \A j \in inked : i >= j
    IN  IF inked = {} THEN "" ELSE SubSeq(s, first, last)

\* variant: substring that cuts nothing off
C26_substringWhole(s, n) == s

\* String.prototype.substring(0, n)
substring0(s, n) == IF Len(s) <= n THEN s ELSE SubSeq(s, 1, n)

\* String.prototype.split on a separator of one code unit: the pieces
\* between one occurrence of the separator and the next
split(s, separator) ==
    LET cuts == {i \in 1..Len(s) : SubSeq(s, i, i) = separator}
        \* the position of the k-th separator; 0 before the first piece and
        \* Len(s) + 1 after the last
        cut(k) == IF k = 0 THEN 0
                  ELSE IF k > Cardinality(cuts) THEN Len(s) + 1
                  ELSE CHOOSE c \in cuts : Cardinality({d \in cuts : d <= c}) = k
    IN  [k \in 1..(Cardinality(cuts) + 1) |-> SubSeq(s, cut(k - 1) + 1, cut(k) - 1)]

\* Array.prototype.join
join(strings, separator) ==
    LET upTo[i \in 0..Len(strings)] ==
            IF i = 0 THEN ""
            ELSE IF i = 1 THEN strings[1]
            ELSE upTo[i - 1] \o separator \o strings[i]
    IN  upTo[Len(strings)]

-----------------------------------------------------------------------------
(* Audit pipeline: the nodes of the security auditor graph.  An emoji of   *)
(* the source texts is written as one '#' per UTF-16 code unit.            *)

\* new AIMessage({ content, tool_calls }): tool_calls is [] when not given
AIMessage(content, tool_calls) ==
    [role |-> "ai", content |-> content, tool_calls |-> tool_calls]

\* new ToolMessage({ content })
ToolMessage(content) == [role |-> "tool", content |-> content, tool_calls |-> << >>]

\* messagesStateReducer, the reducer of the auditMessages channel: the
\* messages of an update carry fresh ids and are appended
messagesStateReducer(left, right) == left \o right

\* the outcome of executor.executeCommand: it throws, or it returns an exit
\* code and the output
CommandThrew == [threw |-> TRUE, exitCode |-> 1, result |-> ""]

CommandFailed == [threw |-> FALSE, exitCode |-> 128, result |-> "fatal: not a git repository"]

CommandOutput(result) == [threw |-> FALSE, exitCode |-> 0, result |-> result]

\* state.targetRepository.branch: unset, or the configured base branch
TargetBranches == {"", "main"}

\* outcomes of `git config init.defaultBranch`
BaseBranchResults == {CommandThrew, CommandFailed, CommandOutput("develop\n"), CommandOutput("\n")}

\* outcomes of `git diff <base> --name-only`
ChangedFilesResults ==
    {CommandThrew, CommandFailed, CommandOutput(""), CommandOutput("src/auth.ts\n"),
     CommandOutput("src/auth.ts\nsrc/db.ts\n")}

\* outcomes of `git diff <base> --unified=3`
CodeChangesResults ==
    {CommandThrew, CommandFailed, CommandOutput("+ const token = req.query.token;\n")}

createSecurityAuditStartedMessage ==
    << AIMessage("## Starting security audit of code changes...", << "security_audit_started" >>),
       ToolMessage("Security audit initialized") >>

getChangedFiles(changedFilesRes) ==
    IF changedFilesRes.threw THEN "Failed to get changed files."
    ELSE IF changedFilesRes.exitCode # 0 THEN "Failed to get changed files."
    ELSE trim(changedFilesRes.result)

getBaseBranchName(baseBranchNameRes) ==
    IF baseBranchNameRes.threw THEN "main"
    ELSE IF baseBranchNameRes.exitCode # 0 THEN "main"
    ELSE trim(baseBranchNameRes.result)

\* initializeSecurityAudit once the sandbox is there: the graph state after
\* its update (lines 122-140)
initializeSecurityAudit(st, branch, baseBranchNameRes, changedFilesRes) ==
    LET baseBranchName == IF branch = "" THEN getBaseBranchName(baseBranchNameRes) ELSE branch
        changedFiles   == IF baseBranchName # "" THEN getChangedFiles(changedFilesRes) ELSE ""
    IN  [st EXCEPT !.baseBranchName = baseBranchName,
                   !.changedFiles = changedFiles,
                   !.scannedFiles = "",
                   !.auditMessages = messagesStateReducer(@, createSecurityAuditStartedMessage)]

\* a command failed: it threw or gave a non-zero exit code
commandFailed(res) == res.threw \/ res.exitCode # 0

\* the record of one call of a node, when that call was made and failed
failedIf(condition, node, call) == IF condition THEN {<<node, call>>} ELSE {}

\* the calls of initializeSecurityAudit that fail under these outcomes; a
\* call that is not reached does not fail
initializeFailures(sandboxOk, branch, baseBranchNameRes, changedFilesRes) ==
    LET baseBranchName == IF branch = "" THEN getBaseBranchName(baseBranchNameRes) ELSE branch
    IN  IF ~sandboxOk THEN {<<INITIALIZE, "getSandboxWithErrorHandling">>}
        ELSE failedIf(branch = "" /\ commandFailed(baseBranchNameRes),
                      INITIALIZE, "getBaseBranchName")
             \cup failedIf(baseBranchName # "" /\ commandFailed(changedFilesRes),
                           INITIALIZE, "getChangedFiles")

\* the node initialize-security-audit and its edge to scan-code-changes; a
\* rejection of getSandboxWithErrorHandling (awaited outside any try block,
\* lines 114-120) leaves the node and ends the run
InitializeSecurityAudit(sandboxOk, branch, baseBranchNameRes, changedFilesRes) ==
    /\ stage = INITIALIZE
    /\ ~rejected
    /\ nodesRun' = Append(nodesRun, INITIALIZE)
    /\ failures' = failures \cup initializeFailures(sandboxOk, branch, baseBranchNameRes, changedFilesRes)
    /\ IF sandboxOk
       THEN /\ state' = initializeSecurityAudit(state, branch, baseBranchNameRes, changedFilesRes)
            /\ stage' = SCAN
            /\ UNCHANGED rejected
       ELSE /\ rejected' = TRUE
            /\ UNCHANGED <<state, stage>>
    /\ UNCHANGED <<prompts, recoveryVars, transcriptVars, analysisVars>>

\* what model.invoke gives: a rejection, or a response with this content
ModelRejected == [rejected |-> TRUE, content |-> ""]

ModelResponse(content) == [rejected |-> FALSE, content |-> content]

\* String.prototype.repeat
repeat(s, count) ==
    LET upTo[i \in 0..count] == IF i = 0 THEN "" ELSE upTo[i - 1] \o s
    IN  upTo[count]

\* a text of the given number of code units
analysisOfLength(length) ==
    repeat("All clear. ", length \div 11) \o SubSeq("All clear. ", 1, length % 11)

\* the code units of the two messages of Initialize and the separators that
\* stand before the response of Scan in the analysis text of a run
StartedLength == 75

\* contents a model response may carry: nothing, a clean bill, findings
\* with bulleted advice, a list of twelve pieces of advice, and analyses
\* that bring the analysis text of the run to 500, 501 and 600 code units
ModelContents ==
    { "",
      "0 should a\n1 Should b\n2 recommend c\n3 RECOMMEND d\n4 consider e\nshould not count\n5 Consider f\n6 should g\n7 should h\n8 should i\n9 should j\n- should k\n* should l",
      "No issues found in the changed files.",
      "CRITICAL: SQL injection in src/auth.ts\n- You SHOULD use parameterized queries\n* Consider input validation\nPlease fix soon",
      "This is an important finding.\n1. You should rotate credentials\nrecommend nothing else",
      "You could improve the naming.\n-should be fine",
      analysisOfLength(500 - StartedLength),
      analysisOfLength(501 - StartedLength),
      analysisOfLength(600 - StartedLength) }

ModelResults == {ModelRejected} \cup {ModelResponse(c) : c \in ModelContents}

\* getCodeChanges: the diff, or the failure text when the sandbox or the
\* command fails
getCodeChanges(sandboxOk, diffRes) ==
    IF ~sandboxOk \/ diffRes.threw THEN "Failed to retrieve code changes for security analysis."
    ELSE IF diffRes.exitCode # 0 THEN "Failed to retrieve code changes for security analysis."
    ELSE trim(diffRes.result)

noChangesMessage ==
    AIMessage("## No code changes detected to scan for security vulnerabilities.", << >>)

scanFailedMessage ==
    AIMessage("# Failed to complete security scan due to an error. Please review the code changes manually for potential security vulnerabilities.", << >>)

\* variant: scanCodeChanges without the early return for an empty changed-file list
C21_scanWithoutEarlyReturn(st, loadModelOk, response) ==
    IF ~loadModelOk \/ response.rejected
    THEN [st EXCEPT !.scannedFiles = st.changedFiles,
                    !.auditMessages = messagesStateReducer(@, << scanFailedMessage >>)]
    ELSE [st EXCEPT !.scannedFiles = st.changedFiles,
                    !.auditMessages = messagesStateReducer(@, << AIMessage(response.content, << >>) >>)]

\* variant: the message built from the model's response carries a tool call
C31_scanPassesToolCalls(st, loadModelOk, response) ==
    IF st.changedFiles = "" \/ trim(st.changedFiles) = ""
    THEN [st EXCEPT !.scannedFiles = "No files changed",
                    !.auditMessages = messagesStateReducer(@, << noChangesMessage >>)]
    ELSE IF ~loadModelOk \/ response.rejected
    THEN [st EXCEPT !.scannedFiles = st.changedFiles,
                    !.auditMessages = messagesStateReducer(@, << scanFailedMessage >>)]
    ELSE [st EXCEPT !.scannedFiles = st.changedFiles,
                    !.auditMessages = messagesStateReducer(@, << AIMessage(response.content, << "search" >>) >>)]

\* variant: a failed model call leaves scannedFiles as Initialize set it
C37_scanFailureKeepsScannedFiles(st, loadModelOk, response) ==
    IF st.changedFiles = "" \/ trim(st.changedFiles) = ""
    THEN [st EXCEPT !.scannedFiles = "No files changed",
                    !.auditMessages = messagesStateReducer(@, << noChangesMessage >>)]
    ELSE IF ~loadModelOk \/ response.rejected
    THEN [st EXCEPT !.auditMessages = messagesStateReducer(@, << scanFailedMessage >>)]
    ELSE [st EXCEPT !.scannedFiles = st.changedFiles,
                    !.auditMessages = messagesStateReducer(@, << AIMessage(response.content, << >>) >>)]

\* scanCodeChanges: the graph state after its update
scanCodeChanges(st, loadModelOk, response) ==
    IF st.changedFiles = "" \/ trim(st.changedFiles) = ""
    THEN [st EXCEPT !.scannedFiles = "No files changed",
                    !.auditMessages = messagesStateReducer(@, << noChangesMessage >>)]
    ELSE IF ~loadModelOk \/ response.rejected
    THEN [st EXCEPT !.scannedFiles = st.changedFiles,
                    !.auditMessages = messagesStateReducer(@, << scanFailedMessage >>)]
    ELSE [st EXCEPT !.scannedFiles = st.changedFiles,
                    !.auditMessages = messagesStateReducer(@, << AIMessage(response.content, << >>) >>)]

\* the prompt scanCodeChanges hands to model.invoke, as the values put in
\* place of {changedFiles} and {codeChanges}; none when the node returns
\* early or loadModel rejects
scanPrompts(st, sandboxOk, diffRes, loadModelOk) ==
    IF st.changedFiles = "" \/ trim(st.changedFiles) = "" \/ ~loadModelOk THEN << >>
    ELSE << [node |-> SCAN, changedFiles |-> st.changedFiles,
             codeChanges |-> getCodeChanges(sandboxOk, diffRes)] >>

\* variant: the conditional edge does not look at the tool calls
C17_routeOnAnyAgentMessage(st) ==
    LET auditMessages == st.auditMessages
        lastMessage   == auditMessages[Len(auditMessages)]
    IN  IF Len(auditMessages) > 0 /\ isAIMessage(lastMessage)
        THEN RECOMMEND
        ELSE FINALIZE

\* the calls of scanCodeChanges that fail under these outcomes: none when
\* the node returns early, and model.invoke is not reached when loadModel
\* rejects
scanFailures(st, sandboxOk, diffRes, loadModelOk, response) ==
    IF st.changedFiles = "" \/ trim(st.changedFiles) = "" THEN {}
    ELSE failedIf(~sandboxOk \/ commandFailed(diffRes), SCAN, "getCodeChanges")
         \cup failedIf(~loadModelOk, SCAN, "loadModel")
         \cup failedIf(loadModelOk /\ response.rejected, SCAN, "model.invoke")

\* the conditional edge after scan-code-changes
proceedToRecommendationsOrFinalize(st) ==
    LET auditMessages == st.auditMessages
        lastMessage   == auditMessages[Len(auditMessages)]
    IN  IF Len(auditMessages) > 0 /\ isAIMessage(lastMessage) /\ Len(lastMessage.tool_calls) > 0
        THEN RECOMMEND
        ELSE FINALIZE

\* the node scan-code-changes and its conditional edge
ScanCodeChanges(sandboxOk, diffRes, loadModelOk, response) ==
    /\ stage = SCAN
    /\ ~rejected
    /\ nodesRun' = Append(nodesRun, SCAN)
    /\ state' = scanCodeChanges(state, loadModelOk, response)
    /\ prompts' = prompts \o scanPrompts(state, sandboxOk, diffRes, loadModelOk)
    /\ failures' = failures \cup scanFailures(state, sandboxOk, diffRes, loadModelOk, response)
    /\ stage' = proceedToRecommendationsOrFinalize(state')
    /\ UNCHANGED <<rejected, recoveryVars, transcriptVars, analysisVars>>

\* .filter(content => typeof content === 'string' && content.length > 0)
isNonEmptyString(content) == content # ""

\* auditMessages.map(msg => msg.content).filter(...).join('\n\n')
joinedContents(auditMessages) ==
    join(SelectSeq([i \in 1..Len(auditMessages) |-> auditMessages[i].content],
                   isNonEmptyString),
         "\n\n")

getSecurityAnalysis(st) ==
    IF joinedContents(st.auditMessages) = "" THEN "No security analysis available"
    ELSE joinedContents(st.auditMessages)

\* the changed files getTaskContext puts into the task context
getTaskContext(st) == IF st.changedFiles = "" THEN "No files changed" ELSE st.changedFiles

recommendationsFailedMessage ==
    AIMessage("# Failed to generate security recommendations due to an error. Please manually review the security analysis and create appropriate recommendations.", << >>)

\* variant: generateSecurityRecommendations also writes a securityReport
C27_recommendWritesReport(st, loadModelOk, response) ==
    [st EXCEPT !.auditMessages = messagesStateReducer(@, << recommendationsFailedMessage >>),
               !.securityReport = [vulnerabilities |-> << >>, summary |-> "", overallRisk |-> "low",
                                   recommendations |-> << >>]]

\* generateSecurityRecommendations: the graph state after its update
generateSecurityRecommendations(st, loadModelOk, response) ==
    IF ~loadModelOk \/ response.rejected
    THEN [st EXCEPT !.auditMessages = messagesStateReducer(@, << recommendationsFailedMessage >>)]
    ELSE [st EXCEPT !.auditMessages = messagesStateReducer(@, << AIMessage(response.content, << >>) >>)]

\* the node generate-security-recommendations and its edge to
\* finalize-security-report
GenerateSecurityRecommendations(loadModelOk, response) ==
    /\ stage = RECOMMEND
    /\ ~rejected
    /\ nodesRun' = Append(nodesRun, RECOMMEND)
    /\ state' = generateSecurityRecommendations(state, loadModelOk, response)
    /\ prompts' = IF loadModelOk
                  THEN Append(prompts, [node |-> RECOMMEND,
                                        securityAnalysis |-> getSecurityAnalysis(state),
                                        taskContext |-> getTaskContext(state)])
                  ELSE prompts
    /\ failures' = failures \cup failedIf(~loadModelOk, RECOMMEND, "loadModel")
                             \cup failedIf(loadModelOk /\ response.rejected, RECOMMEND, "model.invoke")
    /\ stage' = FINALIZE
    /\ UNCHANGED <<rejected, recoveryVars, transcriptVars, analysisVars>>

-----------------------------------------------------------------------------
(* Report synthesizer: finalize-security-report *)

criticalKeywords == {"critical", "severe", "high risk", "vulnerability"}

highKeywords == {"important", "significant", "security issue"}

mediumKeywords == {"consider", "recommend", "improve"}

\* variant: the keyword scan compares the text as written
C23_someKeywordCaseSensitive(keywords, analysisText) ==
    \E keyword \in keywords : includes(analysisText, keyword)

\* keywords.some(keyword => analysisText.toLowerCase().includes(keyword))
someKeywordIn(keywords, analysisText) ==
    LET lowered == toLowerCase(analysisText)
    IN  \E keyword \in keywords : includes(lowered, keyword)

\* variant: a line is captured for its word alone, list marker or not
C25_anyLineWithKeyword(line) ==
    LET lowered == toLowerCase(line)
    IN  includes(lowered, "recommend") \/ includes(lowered, "should") \/ includes(lowered, "consider")

\* line.match(/^[\d\-\*]\s*.*recommend|^[\d\-\*]\s*.*should|^[\d\-\*]\s*.*consider/i)
isRecommendationLine(line) ==
    /\ Len(line) >= 1
    /\ SubSeq(line, 1, 1) \in {"0", "1", "2", "3", "4", "5", "6", "7", "8", "9", "-", "*"}
    /\ LET rest == toLowerCase(SubSeq(line, 2, Len(line)))
       IN  includes(rest, "recommend") \/ includes(rest, "should") \/ includes(rest, "consider")

\* line.replace(/^[\d\-\*]\s*/, '').trim(), for a line that matched
stripBullet(line) == trim(SubSeq(line, 2, Len(line)))

\* the longest summary taken over unchanged
SummaryLimit == 500

\* recommendations.slice(0, 10)
RecommendationLimit == 10

\* variant: the synthesizer turns a critical-tier keyword into a finding
C30_parseWithFindings(auditMessages) ==
    [vulnerabilities |-> IF someKeywordIn(criticalKeywords, joinedContents(auditMessages))
                         THEN << [severity |-> "critical"] >>
                         ELSE << >>,
     summary |-> joinedContents(auditMessages),
     overallRisk |-> IF someKeywordIn(criticalKeywords, joinedContents(auditMessages))
                     THEN "critical"
                     ELSE "low",
     recommendations |-> << >>]

parseSecurityAnalysis(auditMessages) ==
    LET analysisText == joinedContents(auditMessages)
        overallRisk ==
            IF someKeywordIn(criticalKeywords, analysisText) THEN "critical"
            ELSE IF someKeywordIn(highKeywords, analysisText) THEN "high"
            ELSE IF someKeywordIn(mediumKeywords, analysisText) THEN "medium"
            ELSE "low"
        matched == SelectSeq(split(analysisText, "\n"), isRecommendationLine)
        recommendations == [i \in 1..Len(matched) |-> stripBullet(matched[i])]
        summary ==
            IF Len(analysisText) > SummaryLimit
            THEN substring0(analysisText, SummaryLimit) \o "..."
            ELSE IF analysisText = ""
            THEN "Security audit completed with no specific issues identified."
            ELSE analysisText
    IN  [vulnerabilities |-> << >>,
         summary |-> summary,
         overallRisk |-> overallRisk,
         recommendations |-> sliceFirst(recommendations, RecommendationLimit)]

riskEmoji == [critical |-> "##", high |-> "##", medium |-> "#", low |-> "##"]

\* report.recommendations.slice(0, 3).map((rec, i) => `${i + 1}. ${rec}`).join('\n')
keyRecommendations(report) ==
    LET top == sliceFirst(report.recommendations, 3)
    IN  join([i \in 1..Len(top) |-> ToString(i) \o ". " \o top[i]], "\n")

createSecurityCompletedMessage(report) ==
    LET summaryMessage ==
            trim("\n" \o riskEmoji[report.overallRisk] \o " **Security Audit Complete**\n\n"
                 \o "**Overall Risk Level:** " \o toUpperCase(report.overallRisk) \o "\n"
                 \o "**Vulnerabilities Found:** " \o ToString(Len(report.vulnerabilities)) \o "\n"
                 \o "**Files Scanned:** Changed files in this session\n\n"
                 \o report.summary \o "\n\n"
                 \o (IF Len(report.recommendations) > 0
                     THEN "**Key Recommendations:**\n" \o keyRecommendations(report)
                     ELSE "")
                 \o "\n\nSee detailed security analysis above for complete findings and recommendations.\n  ")
    IN  << AIMessage(summaryMessage, << "security_audit_completed" >>),
           ToolMessage("Security audit completed successfully") >>

\* variant: the fallback report is the report of an audit that found nothing
C19_fallbackAsCleanReport ==
    [vulnerabilities |-> << >>,
     summary |-> "Security audit completed with no specific issues identified.",
     overallRisk |-> "low",
     recommendations |-> << >>]

fallbackReport ==
    [vulnerabilities |-> << >>,
     summary |-> "Security audit completed but report generation failed. Please review the security analysis above manually.",
     overallRisk |-> "medium",
     recommendations |-> << "Manual review of security analysis is recommended" >>]

completedWithErrorsMessage ==
    AIMessage("## Security audit completed with errors. Please review the analysis above and create appropriate security measures manually.", << >>)

\* finalizeSecurityReport: the graph state after its update; synthesisOk is
\* false when something inside the try block throws
finalizeSecurityReport(st, synthesisOk) ==
    IF synthesisOk
    THEN LET securityReport == parseSecurityAnalysis(st.auditMessages)
         IN  [st EXCEPT !.securityReport = securityReport,
                        !.auditMessages = messagesStateReducer(@, createSecurityCompletedMessage(securityReport))]
    ELSE [st EXCEPT !.securityReport = fallbackReport,
                    !.auditMessages = messagesStateReducer(@, << completedWithErrorsMessage >>)]

\* the node finalize-security-report and its edge to END
FinalizeSecurityReport(synthesisOk) ==
    /\ stage = FINALIZE
    /\ ~rejected
    /\ nodesRun' = Append(nodesRun, FINALIZE)
    /\ state' = finalizeSecurityReport(state, synthesisOk)
    /\ failures' = failures \cup failedIf(~synthesisOk, FINALIZE, "parseSecurityAnalysis")
    /\ stage' = END
    /\ UNCHANGED <<prompts, rejected, recoveryVars, transcriptVars, analysisVars>>

\* the graph state a direct call of generateSecurityRecommendations is given:
\* an analysis whose last message asks for follow-on actions, the only
\* kind of state the conditional edge sends to that node
RecommendEntryStates ==
    { [StartState EXCEPT !.baseBranchName = "main",
                         !.changedFiles = "src/auth.ts",
                         !.scannedFiles = "src/auth.ts",
                         !.auditMessages = createSecurityAuditStartedMessage
                                           \o << AIMessage(content, << "search" >>) >>]
        : content \in ModelContents }

\* the graph state a direct call of finalizeSecurityReport is given when
\* there is no analysis text: no audit message, or one without content
FinalizeEntryStates ==
    { StartState, [StartState EXCEPT !.auditMessages = << AIMessage("", << >>) >>] }

\* where a run begins: at START, whose edge leads to
\* initialize-security-audit, or at generate-security-recommendations or
\* finalize-security-report when that node is called directly
EntryPoints ==
    {<<INITIALIZE, StartState>>}
        \cup {<<RECOMMEND, st>> : st \in RecommendEntryStates}
        \cup {<<FINALIZE, st>> : st \in FinalizeEntryStates}

InitAudit ==
    /\ recoveryStates = [k \in Keys |-> NoState]
    /\ pc = [p \in Procs |-> "idle"]
    /\ thread_id = [p \in Procs |-> NoThreadId]
    /\ recoveryModel = [p \in Procs |-> SUMMARIZER]
    /\ ord = [p \in Procs |-> 0]
    /\ started = [k \in Keys |-> 0]
    /\ selected = [k \in Keys |-> << >>]
    /\ lastReturn = NoReturn
    /\ messages = << >>
    /\ initialLen = 0
    /\ \E entry \in EntryPoints : stage = entry[1] /\ state = entry[2]
    /\ nodesRun = << >>
    /\ prompts = << >>
    /\ rejected = FALSE
    /\ failures = {}
    /\ analyzed = << >>
    /\ errorPatterns = << >>
    /\ failedCommands = << >>
    /\ analysis = ""

NextAudit ==
    \/ \E sandboxOk \in BOOLEAN, branch \in TargetBranches,
          baseBranchNameRes \in BaseBranchResults, changedFilesRes \in ChangedFilesResults :
            InitializeSecurityAudit(sandboxOk, branch, baseBranchNameRes, changedFilesRes)
    \/ \E sandboxOk \in BOOLEAN, diffRes \in CodeChangesResults,
          loadModelOk \in BOOLEAN, response \in ModelResults :
            ScanCodeChanges(sandboxOk, diffRes, loadModelOk, response)
    \/ \E loadModelOk \in BOOLEAN, response \in ModelResults :
            GenerateSecurityRecommendations(loadModelOk, response)
    \/ \E synthesisOk \in BOOLEAN : FinalizeSecurityReport(synthesisOk)

SpecAudit == InitAudit /\ [][NextAudit]_vars

-----------------------------------------------------------------------------
(* Error-pattern analyzer: analyzeErrorPatterns, smart-error-recovery.ts  *)
(* lines 91-167.  The contents of the model hold no carriage return, and   *)
(* "Command:" is followed by text on its line wherever it occurs.  A grave *)
(* accent of a content is written as '^', a string of the module not being *)
(* able to hold one.                                                       *)

\* the code unit that delimits an inline command in a content
graveAccent == "^"

\* a tool result with status "error"; the name is "" when the message has none
ErrorToolMessage(name, content) ==
    [role |-> "tool", status |-> "error", name |-> name, content |-> content]

\* contents of error tool results: the marker phrases as the code spells
\* them, in other letter cases, two markers in one content, none at all
ErrorContents ==
    { "bash: syntax error near unexpected token",
      "SyntaxError: Unexpected token",
      "Syntax Error in line 3",
      "cat: a.txt: No such file or directory",
      "bash: foo: command not found",
      "bash: -c: line 1: syntax error near unexpected token\nbash: foo: command not found",
      "Command: rm -rf build\nrm: Permission denied",
      "PERMISSION DENIED",
      "'foo' is not recognized as an internal or external command",
      "^npm test^ hit a timeout",
      "Timeout: file not found",
      "exit code 1" }

\* the messages an analyzed array may hold: error tool results of the tool
\* "shell", one of a tool without name, a successful tool result and an
\* agent message
AnalyzedMessages ==
    {ErrorToolMessage("shell", content) : content \in ErrorContents}
        \cup { ErrorToolMessage("", "exit code 1"),
               [role |-> "tool", status |-> "success", name |-> "shell", content |-> "ok"],
               [role |-> "ai", status |-> "", name |-> "", content |-> "Running the tests"] }

\* variant: the command-not-found markers are tested before the not-found ones
C39_errorTypeCommandFirst(content) ==
    IF includes(content, "syntax error") \/ includes(content, "SyntaxError")
    THEN "syntax_error"
    ELSE IF includes(content, "command not found") \/ includes(content, "not recognized")
    THEN "command_not_found"
    ELSE IF includes(content, "not found") \/ includes(content, "No such file")
    THEN "file_not_found"
    ELSE IF includes(content, "permission") \/ includes(content, "Permission denied")
    THEN "permission_error"
    ELSE IF includes(content, "timeout") \/ includes(content, "Timeout")
    THEN "timeout_error"
    ELSE "unknown"

\* the if / else-if chain of lines 109-120
errorType(content) ==
    IF includes(content, "syntax error") \/ includes(content, "SyntaxError")
    THEN "syntax_error"
    ELSE IF includes(content, "not found") \/ includes(content, "No such file")
    THEN "file_not_found"
    ELSE IF includes(content, "permission") \/ includes(content, "Permission denied")
    THEN "permission_error"
    ELSE IF includes(content, "command not found") \/ includes(content, "not recognized")
    THEN "command_not_found"
    ELSE IF includes(content, "timeout") \/ includes(content, "Timeout")
    THEN "timeout_error"
    ELSE "unknown"

\* the result of String.prototype.match: null, or the first capture group
NoMatch == [matched |-> FALSE, group |-> ""]

Match(group) == [matched |-> TRUE, group |-> group]

\* the smallest member of a non-empty set of positions
firstOf(positions) == CHOOSE i \in positions : \A j \in positions : i <= j

\* content.match(/Command:\s*(.+?)(?:\n|$)/i): after the first "command:" in
\* any letter case that has text behind it, the white space is skipped and
\* the text up to the end of its line is captured
matchCommandLabel(content) ==
    LET lowered == toLowerCase(content)
        inked(i) == {j \in (i + 8)..Len(content) : ~isWhiteSpace(SubSeq(content, j, j))}
        labels == {i \in 1..(Len(content) - 7) :
                      SubSeq(lowered, i, i + 7) = "command:" /\ inked(i) # {}}
        from == firstOf(inked(firstOf(labels)))
        lineEnds == {j \in from..Len(content) : SubSeq(content, j, j) = "\n"}
    IN  IF labels = {} THEN NoMatch
        ELSE IF lineEnds = {} THEN Match(SubSeq(content, from, Len(content)))
        ELSE Match(SubSeq(content, from, firstOf(lineEnds) - 1))

\* content.match(/`([^`]+)`/): the text between the first grave accent that
\* has something other than a grave accent behind it and the next one
matchBackticks(content) ==
    LET ticks == {i \in 1..Len(content) : SubSeq(content, i, i) = graveAccent}
        opening == {i \in ticks : (i + 1) \in 1..Len(content) /\ (i + 1) \notin ticks
                                    /\ \E k \in ticks : k > i}
        open == firstOf(opening)
        close == firstOf({k \in ticks : k > open})
    IN  IF opening = {} THEN NoMatch ELSE Match(SubSeq(content, open + 1, close - 1))

\* lines 101-106: the command pushed for an error tool result
failedCommand(message) ==
    LET commandMatch ==
            IF matchCommandLabel(message.content).matched THEN matchCommandLabel(message.content)
            ELSE IF matchBackticks(message.content).matched THEN matchBackticks(message.content)
            ELSE Match(message.name)
        command == IF trim(commandMatch.group) # "" THEN trim(commandMatch.group) ELSE message.name
    IN  IF command # "" THEN command ELSE "unknown"

\* where the Map errorPatterns holds the key, 0 where it does not
patternIndex(patterns, key) ==
    IF \E k \in DOMAIN patterns : patterns[k].errorType = key
    THEN CHOOSE k \in DOMAIN patterns : patterns[k].errorType = key
    ELSE 0

\* lines 122-132: the Map after the pattern of the error type is counted up
tally(patterns, key, i, command) ==
    LET k == patternIndex(patterns, key)
    IN  IF k = 0
        THEN Append(patterns, [errorType |-> key, count |-> 1, lastOccurrence |-> i,
                               commands |-> << command >>])
        ELSE [patterns EXCEPT ![k] = [errorType |-> key, count |-> @.count + 1,
                                      lastOccurrence |-> i,
                                      commands |-> Append(@.commands, command)]]

\* one iteration of the loop of lines 95-134, on messages[i]
AnalyzeMessage(message) ==
    /\ analysis = ""
    /\ analyzed' = Append(analyzed, message)
    /\ IF isToolMessage(message) /\ message.status = "error"
       THEN /\ failedCommands' = Append(failedCommands, failedCommand(message))
            /\ errorPatterns' = tally(errorPatterns, errorType(message.content),
                                      Len(analyzed), failedCommand(message))
       ELSE UNCHANGED <<failedCommands, errorPatterns>>
    /\ UNCHANGED <<analysis, recoveryVars, transcriptVars, auditVars>>

\* type.replace('_', ' '): the first underscore becomes a blank
replaceFirstUnderscore(type) ==
    LET underscores == {i \in 1..Len(type) : SubSeq(type, i, i) = "_"}
    IN  IF underscores = {} THEN type
        ELSE SubSeq(type, 1, firstOf(underscores) - 1) \o " "
                 \o SubSeq(type, firstOf(underscores) + 1, Len(type))

\* lines 141-144: the two lines of the report for one pattern
patternLines(pattern) ==
    "- **" \o toUpperCase(replaceFirstUnderscore(pattern.errorType)) \o "**: "
        \o ToString(pattern.count) \o " occurrences\n"
        \o "  - Commands: " \o join(sliceLast(pattern.commands, 3), ", ") \o "\n"

\* the strings of a sequence written one after the other
concat(strings) == join(strings, "")

\* lines 148-151: the Map commandCounts, its keys in the order they were
\* first seen
commandCounts(commands) ==
    LET firstSeen == {i \in DOMAIN commands : \A j \in 1..(i - 1) : commands[j] # commands[i]}
        key(k) == commands[CHOOSE i \in firstSeen : Cardinality({j \in firstSeen : j <= i}) = k]
    IN  [k \in 1..Cardinality(firstSeen) |->
            [cmd |-> key(k), count |-> Cardinality({j \in DOMAIN commands : commands[j] = key(k)})]]

\* is the entry repeated: .filter(([_, count]) => count > 1)
isRepeated(entry) == entry.count > 1

\* variant: the entries are left in the order they were first seen
C40_sortKeepsOrder(entries) == [k \in DOMAIN entries |-> entries[k]]

\* .sort(([_, a], [__, b]) => b - a): by falling count, entries of equal
\* count staying in their order (Array.prototype.sort is stable)
sortByCount(entries) ==
    LET before(i, j) == entries[i].count > entries[j].count
                           \/ (entries[i].count = entries[j].count /\ i < j)
        place(i) == 1 + Cardinality({j \in DOMAIN entries : before(j, i)})
    IN  [k \in DOMAIN entries |-> entries[CHOOSE i \in DOMAIN entries : place(i) = k]]

\* lines 153-155
repeatedCommands(commands) == sortByCount(SelectSeq(commandCounts(commands), isRepeated))

\* line 160: the line of the report for one repeated command
repeatedLine(entry) ==
    "  - \"" \o entry.cmd \o "\": failed " \o ToString(entry.count) \o " times\n"

\* lines 136-166: the text built from the Map and the failed commands
analysisReport(patterns, commands) ==
    "## Error Pattern Analysis:\n"
        \o (IF Len(patterns) = 0 THEN "- No clear error patterns detected\n"
            ELSE concat([k \in DOMAIN patterns |-> patternLines(patterns[k])]))
        \o "\n## Command Repetition Analysis:\n"
        \o (IF Len(repeatedCommands(commands)) > 0
            THEN "- **REPEATED FAILED COMMANDS** (avoid these):\n"
                     \o concat([k \in DOMAIN repeatedCommands(commands) |->
                                   repeatedLine(repeatedCommands(commands)[k])])
            ELSE "- No obviously repeated failed commands detected\n")

\* the loop has gone through the whole array: the report is built and returned
ReturnAnalysis ==
    /\ analysis = ""
    /\ analysis' = analysisReport(errorPatterns, failedCommands)
    /\ UNCHANGED <<analyzed, errorPatterns, failedCommands, recoveryVars, transcriptVars, auditVars>>

InitAnalysis ==
    /\ recoveryStates = [k \in Keys |-> NoState]
    /\ pc = [p \in Procs |-> "idle"]
    /\ thread_id = [p \in Procs |-> NoThreadId]
    /\ recoveryModel = [p \in Procs |-> SUMMARIZER]
    /\ ord = [p \in Procs |-> 0]
    /\ started = [k \in Keys |-> 0]
    /\ selected = [k \in Keys |-> << >>]
    /\ lastReturn = NoReturn
    /\ messages = << >>
    /\ initialLen = 0
    /\ stage = END
    /\ state = StartState
    /\ nodesRun = << >>
    /\ prompts = << >>
    /\ rejected = FALSE
    /\ failures = {}
    /\ analyzed = << >>
    /\ errorPatterns = << >>
    /\ failedCommands = << >>
    /\ analysis = ""

NextAnalysis ==
    \/ \E message \in AnalyzedMessages :
          Len(analyzed) < MaxAnalyzed /\ AnalyzeMessage(message)
    \/ ReturnAnalysis

SpecAnalysis == InitAnalysis /\ [][NextAnalysis]_vars

\* the messages of a conversation in which the agent repeats itself: a
\* removal that is denied, a failure of the tool "shell" and one of a tool
\* without name that say nothing more than the exit code, and a success
RepeatedMessages ==
    { ErrorToolMessage("shell", "Command: rm -rf build\nrm: Permission denied"),
      ErrorToolMessage("shell", "exit code 1"),
      ErrorToolMessage("", "exit code 1"),
      [role |-> "tool", status |-> "success", name |-> "shell", content |-> "ok"] }

\* analyzeErrorPatterns on the longer arrays of such messages
NextRepetition ==
    \/ \E message \in RepeatedMessages :
          Len(analyzed) < MaxRepeated /\ AnalyzeMessage(message)
    \/ ReturnAnalysis

SpecRepetition == InitAnalysis /\ [][NextRepetition]_vars

-----------------------------------------------------------------------------
(* Properties of the recovery strategy selector, checked under SpecRecovery *)

\* the RecoveryState key a configured thread id stands for, stated from the
\* contract: an absent thread id means the shared key "default"
Names(tid, key) == IF tid = NoThreadId THEN key = DefaultKey ELSE key = tid

retryCountOf(states, key) ==
    IF states[key] = NoState THEN 0 ELSE states[key].retryCount

IsHelp(ret) ==
    /\ ret.kind = "returned"
    /\ Len(ret.messages) = 1
    /\ ret.messages[1].role = "ai"
    /\ ret.messages[1].tool_call = "request_human_help"

\* C1: the k-th invocation entered for a thread returns the human-help
\* outcome (one agent message with a request_human_help tool call carrying
\* the retry count, the model never called) if and only if k >= 6; only
\* invocations 1 to 5 ever get past the breaker.
C1_CircuitBreaker ==
    /\ lastReturn.kind # "none" =>
          /\ IsHelp(lastReturn) <=> lastReturn.ord >= 6
          /\ IsHelp(lastReturn) =>
                /\ lastReturn.messages[1].retry_count = lastReturn.ord
                /\ lastReturn.response = "not_called"
    /\ \A p \in Procs : pc[p] # "idle" => ord[p] \in 1..5

C1_Witness ==
    /\ IsHelp(lastReturn)
    /\ lastReturn.ord = 7
    /\ lastReturn.thread_id = "t1"

\* C2: the i-th invocation that passes the breaker on a thread selects the
\* strategy at index (i - 1) mod 3 of the rotation: indices 0, 1, 2, 0 for
\* retryCount 1, 2, 3, 4, the first strategy on the first attempt.
C2_RotationStartsAtFirstStrategy ==
    \A key \in Keys : \A i \in 1..Len(selected[key]) :
        selected[key][i] = modelRotation[((i - 1) % 3) + 1]

\* C3: two consecutive invocations of one thread that both pass the circuit
\* breaker select different models.
C3_ConsecutiveStrategiesDiffer ==
    \A key \in Keys : \A i \in 1..(Len(selected[key]) - 1) :
        selected[key][i] # selected[key][i + 1]

C3_Witness == \E key \in Keys : Len(selected[key]) = 5

\* C4: retryCount starts at 0 with the lazily created state, every entered
\* invocation of the thread adds exactly 1 to it, no other step changes it,
\* and an existing state is never dropped.
C4_RetryCountMonotonic ==
    [][\A key \in Keys :
          /\ retryCountOf(recoveryStates', key) >= retryCountOf(recoveryStates, key)
          /\ retryCountOf(recoveryStates', key) - retryCountOf(recoveryStates, key)
                = started'[key] - started[key]
          /\ recoveryStates[key] # NoState => recoveryStates'[key] # NoState
          /\ started'[key] = 1 => retryCountOf(recoveryStates', key) = 1]_vars

C4_Witness ==
    /\ retryCountOf(recoveryStates, "t1") = 7
    /\ lastReturn.kind = "threw"
    /\ lastReturn.thread_id = "t1"

\* C5: when the model response carries no tool call, the invocation throws:
\* its caller gets no messages, and lastModelUsed (the whole RecoveryState
\* map) is left as it was; an invocation that returns always returns messages.
C5_HardFailure ==
    [][(\E p \in Procs : pc[p] = "invoke" /\ pc'[p] = "idle")
          => /\ lastReturn'.response = "no_tool_call"
                  => /\ lastReturn'.kind = "threw"
                     /\ lastReturn'.messages = << >>
                     /\ recoveryStates' = recoveryStates
             /\ lastReturn'.kind = "returned" => Len(lastReturn'.messages) = 2]_vars

C5_Witness ==
    /\ lastReturn.kind = "threw"
    /\ lastReturn.response = "no_tool_call"
    /\ lastReturn.ord = 1
    /\ lastReturn.thread_id = "t1"
    /\ recoveryStates["t1"].lastModelUsed = SUMMARIZER
    /\ selected["t1"][1] # SUMMARIZER

\* C6: no two invocations for the same thread are in progress at the same
\* time.
C6_PerThreadExclusion ==
    \A p, q \in Procs :
        (p # q /\ pc[p] # "idle" /\ pc[q] # "idle")
            => threadIdOf(thread_id[p]) # threadIdOf(thread_id[q])

\* a step of an invocation made for the RecoveryState key: it enters and
\* suspends, it enters and trips the breaker, or it completes
StepFor(key) ==
    \/ \E p \in Procs : pc[p] = "idle" /\ pc'[p] = "loadModel" /\ Names(thread_id'[p], key)
    \/ \E p \in Procs : pc[p] = "invoke" /\ pc'[p] = "idle" /\ Names(thread_id[p], key)
    \/ lastReturn' # lastReturn /\ IsHelp(lastReturn') /\ Names(lastReturn'.thread_id, key)

\* C7: the RecoveryState of a thread changes only in a step of an invocation
\* made for that thread; invocations of other threads leave it unchanged.
C7_ThreadIndependence ==
    [][\A key \in Keys : recoveryStates'[key] # recoveryStates[key] => StepFor(key)]_vars

C7_Witness ==
    /\ retryCountOf(recoveryStates, "t1") = 7
    /\ retryCountOf(recoveryStates, DefaultKey) = 1
    /\ \E p \in Procs : pc[p] = "invoke" /\ thread_id[p] = NoThreadId

-----------------------------------------------------------------------------
(* Properties of the escalation decision engine, checked under SpecTranscript *)

\* the number of error-status messages of a group, counted from the messages
Errors(group) == Cardinality({j \in DOMAIN group : group[j].status = "error"})

\* each of the last n groups has error rate >= tenths / 10
LastGroupsAtLeast(groups, n, tenths) ==
    \A g \in DOMAIN groups :
        g > Len(groups) - n => 10 * Errors(groups[g]) >= tenths * Len(groups[g])

\* a diagnosis-flagged tool-result lies in one of the last 2 groups of the
\* history grouping
InCooldown(msgs) ==
    LET h == historyGroups(msgs)
    IN  \E g \in DOMAIN h : g > Len(h) - 2 /\ \E j \in DOMAIN h[g] : h[g][j].is_diagnosis

\* the number of diagnosis-flagged tool-results among the last 20 messages
DiagnosesInLast20(msgs) ==
    Cardinality({i \in DOMAIN msgs :
                    i > Len(msgs) - 20 /\ msgs[i].role = "tool" /\ msgs[i].is_diagnosis})

\* C8: shouldDiagnoseError follows its decision table: false below 2 groups;
\* else false in cooldown; else true when stuck; else true when the last 2
\* groups each have error rate >= 0.5; else, with 3 groups or more, true
\* exactly when the last 3 groups each have error rate >= 0.6; else false.
C8_DiagnoseDecisionTable ==
    LET groups == groupToolMessagesByAIMessage(messages)
        n      == Len(groups)
        stuck  == checkForStuckPattern(messages)
        cool   == InCooldown(messages)
        two    == LastGroupsAtLeast(groups, 2, 5)
        three  == LastGroupsAtLeast(groups, 3, 6)
        result == shouldDiagnoseError(messages)
    IN  /\ n < 2 => result = FALSE
        /\ (n >= 2 /\ cool) => result = FALSE
        /\ (n >= 2 /\ ~cool /\ stuck) => result = TRUE
        /\ (n >= 2 /\ ~cool /\ ~stuck /\ two) => result = TRUE
        /\ (n >= 3 /\ ~cool /\ ~stuck /\ ~two) => result = three
        /\ (n = 2 /\ ~cool /\ ~stuck /\ ~two) => result = FALSE

\* two groups of error rate exactly 1/2, no cooldown, not stuck: the
\* two-group rule decides
C8_Witness ==
    LET groups == groupToolMessagesByAIMessage(messages) IN
    /\ Len(groups) = 2
    /\ \A g \in 1..2 : Len(groups[g]) = 2 /\ Errors(groups[g]) = 1
    /\ ~InCooldown(messages)
    /\ ~checkForStuckPattern(messages)
    /\ shouldDiagnoseError(messages)

\* C9: in cooldown shouldDiagnoseError returns false, whatever else holds,
\* the stuck pattern and error rates of 1 included.
C9_CooldownPrecedence ==
    InCooldown(messages) => shouldDiagnoseError(messages) = FALSE

\* cooldown, the stuck pattern and three groups of error rate 1, all at once
C9_Witness ==
    LET groups == groupToolMessagesByAIMessage(messages) IN
    /\ InCooldown(messages)
    /\ checkForStuckPattern(messages)
    /\ Len(groups) >= 3
    /\ LastGroupsAtLeast(groups, 3, 10)
    /\ shouldDiagnoseError(messages) = FALSE

\* C10: shouldUseSmartRecovery follows its decision table: false below 2
\* groups; else true with 2 or more diagnosis-flagged tool-results in the
\* last 20 messages; else true with 3 groups or more whose last 3 each have
\* error rate >= 0.8; else true exactly when stuck.
C10_SmartRecoveryDecisionTable ==
    LET groups == groupToolMessagesByAIMessage(messages)
        n      == Len(groups)
        stuck  == checkForStuckPattern(messages)
        diag   == DiagnosesInLast20(messages) >= 2
        high   == n >= 3 /\ LastGroupsAtLeast(groups, 3, 8)
        result == shouldUseSmartRecovery(messages)
    IN  /\ n < 2 => result = FALSE
        /\ (n >= 2 /\ diag) => result = TRUE
        /\ (n >= 2 /\ ~diag /\ high) => result = TRUE
        /\ (n >= 2 /\ ~diag /\ ~high) => result = stuck

\* three all-error groups decide, with no diagnosis and no stuck pattern
C10_Witness ==
    LET groups == groupToolMessagesByAIMessage(messages) IN
    /\ Len(groups) = 3
    /\ LastGroupsAtLeast(groups, 3, 8)
    /\ DiagnosesInLast20(messages) = 0
    /\ ~checkForStuckPattern(messages)
    /\ shouldUseSmartRecovery(messages)

\* C11 as stated: the stuck pattern, and 2 or more diagnosis-flagged
\* tool-results within the last 20 messages, each make shouldUseSmartRecovery
\* return true on every transcript, whatever the groups are.
C11_TriggersForceTrueOnEveryTranscript ==
    (checkForStuckPattern(messages) \/ DiagnosesInLast20(messages) >= 2)
        => shouldUseSmartRecovery(messages) = TRUE

\* C11, amended: on a transcript with at least 2 tool-invocation groups, the
\* stuck pattern forces true and 2 or more diagnosis-flagged tool-results
\* within the last 20 messages force true, each on its own and whatever the
\* error rates of the groups are; below 2 groups the result is false.
C11_TriggersForceTrue ==
    LET n == Len(groupToolMessagesByAIMessage(messages)) IN
    /\ (n >= 2 /\ checkForStuckPattern(messages)) => shouldUseSmartRecovery(messages) = TRUE
    /\ (n >= 2 /\ DiagnosesInLast20(messages) >= 2) => shouldUseSmartRecovery(messages) = TRUE
    /\ n < 2 => shouldUseSmartRecovery(messages) = FALSE

\* the stuck pattern alone decides: fewer than 2 diagnoses in the last 20
\* messages and a last group of error rate 1/2
C11_Witness ==
    LET groups == groupToolMessagesByAIMessage(messages) IN
    /\ checkForStuckPattern(messages)
    /\ DiagnosesInLast20(messages) < 2
    /\ ~LastGroupsAtLeast(groups, 3, 8)
    /\ shouldUseSmartRecovery(messages)

\* no tool-result of the transcript is diagnosis-flagged
NoDiagnosisIn(msgs) ==
    \A i \in DOMAIN msgs : ~(msgs[i].role = "tool" /\ msgs[i].is_diagnosis)

\* C12: on a transcript with at least 3 tool-invocation groups whose last 3
\* groups each have error rate >= 0.8 (1.0 included) and with no
\* diagnosis-flagged tool-result, shouldDiagnoseError returns true and
\* shouldUseSmartRecovery returns true.
C12_SustainedFailureEscalates ==
    LET groups == groupToolMessagesByAIMessage(messages) IN
    (Len(groups) >= 3 /\ LastGroupsAtLeast(groups, 3, 8) /\ NoDiagnosisIn(messages))
        => /\ shouldDiagnoseError(messages) = TRUE
           /\ shouldUseSmartRecovery(messages) = TRUE

\* exactly 3 groups, each of error rate 1, no diagnosis and no stuck pattern:
\* the threshold rules alone decide
C12_Witness ==
    LET groups == groupToolMessagesByAIMessage(messages) IN
    /\ Len(groups) = 3
    /\ \A g \in 1..3 : Errors(groups[g]) = Len(groups[g])
    /\ NoDiagnosisIn(messages)
    /\ ~checkForStuckPattern(messages)
    /\ shouldDiagnoseError(messages)
    /\ shouldUseSmartRecovery(messages)

\* C13 as stated: on every transcript on which shouldUseSmartRecovery
\* returns true, shouldDiagnoseError returns true as well.
C13_SmartRecoveryImpliesDiagnosis ==
    shouldUseSmartRecovery(messages) => shouldDiagnoseError(messages)

\* C13, amended: on every transcript that is not in cooldown and on which
\* shouldUseSmartRecovery returns true with the stuck pattern present or with
\* the last 3 groups each at error rate >= 0.8, shouldDiagnoseError returns
\* true as well; the diagnosis-count trigger alone, and any trigger during
\* cooldown, do not imply it.
C13_SmartRecoveryImpliesDiagnosisOutsideCooldown ==
    LET groups == groupToolMessagesByAIMessage(messages)
        strong == \/ checkForStuckPattern(messages)
                  \/ (Len(groups) >= 3 /\ LastGroupsAtLeast(groups, 3, 8))
    IN  (shouldUseSmartRecovery(messages) /\ ~InCooldown(messages) /\ strong)
            => shouldDiagnoseError(messages)

\* smart recovery fires on the stuck pattern while the last group is
\* error-free, with an old diagnosis outside the cooldown
C13_Witness ==
    LET groups == groupToolMessagesByAIMessage(messages) IN
    /\ shouldUseSmartRecovery(messages)
    /\ shouldDiagnoseError(messages)
    /\ checkForStuckPattern(messages)
    /\ ~InCooldown(messages)
    /\ DiagnosesInLast20(messages) = 1
    /\ Errors(groups[Len(groups)]) = 0

\* C14: the groups of groupToolMessagesByAIMessage are non-empty; every
\* member is a tool-result message of the transcript, found at its own
\* position; positions increase strictly within a group and from one group
\* to the next, so the groups do not overlap and their concatenation is a
\* subsequence of the transcript's tool-result messages.
C14_GroupsPartitionInOrder ==
    LET groups == groupToolMessagesByAIMessage(messages) IN
    /\ \A g \in DOMAIN groups :
          /\ Len(groups[g]) > 0
          /\ \A j \in DOMAIN groups[g] :
                /\ groups[g][j].id \in DOMAIN messages
                /\ messages[groups[g][j].id] = groups[g][j]
                /\ groups[g][j].role = "tool"
                /\ j > 1 => groups[g][j - 1].id < groups[g][j].id
    /\ \A g \in DOMAIN groups :
          g > 1 => groups[g - 1][Len(groups[g - 1])].id < groups[g][1].id

\* a young conversation with two groups, one of them of several members, and
\* a tool-result of the transcript that belongs to no group
C14_Witness ==
    LET groups  == groupToolMessagesByAIMessage(messages)
        members == UNION {{groups[g][j].id : j \in DOMAIN groups[g]} : g \in DOMAIN groups} IN
    /\ initialLen <= 2
    /\ Len(groups) = 2
    /\ \E g \in DOMAIN groups : Len(groups[g]) >= 2
    /\ \E i \in DOMAIN messages : messages[i].role = "tool" /\ i \notin members

\* C15: calculateErrorRate is 0 for the empty group and otherwise the
\* number of error-status messages over the group length; it lies within
\* [0, 1], is 0 for an all-success group and 1 for an all-error group, and
\* among groups of one size it does not decrease as the error count grows.
C15_ErrorRate ==
    LET groups == groupToolMessagesByAIMessage(messages)
        rate(g) == calculateErrorRate(groups[g])
    IN  /\ calculateErrorRate(<< >>)[1] = 0
        /\ calculateErrorRate(<< >>)[2] > 0
        /\ \A g \in DOMAIN groups :
              /\ rate(g)[2] > 0
              /\ rate(g)[1] * Len(groups[g]) = Errors(groups[g]) * rate(g)[2]
              /\ 0 <= rate(g)[1]
              /\ rate(g)[1] <= rate(g)[2]
              /\ Errors(groups[g]) = 0 => rate(g)[1] = 0
              /\ Errors(groups[g]) = Len(groups[g]) => rate(g)[1] = rate(g)[2]
        /\ \A g, h \in DOMAIN groups :
              (Len(groups[g]) = Len(groups[h]) /\ Errors(groups[g]) <= Errors(groups[h]))
                  => rate(g)[1] * rate(h)[2] <= rate(h)[1] * rate(g)[2]

\* two groups of one size, one all-error and one half-error, by an
\* all-success group
C15_Witness ==
    LET groups == groupToolMessagesByAIMessage(messages) IN
    \E g, h, k \in DOMAIN groups :
        /\ Len(groups[g]) = 2 /\ Errors(groups[g]) = 2
        /\ Len(groups[h]) = 2 /\ Errors(groups[h]) = 1
        /\ Errors(groups[k]) = 0

\* the positions i of the transcript, from position first on, at which an
\* agent message is immediately followed by an error tool-result of that name
FailedPairs(msgs, first, name) ==
    {i \in DOMAIN msgs :
        /\ i >= first
        /\ i < Len(msgs)
        /\ msgs[i].role = "ai"
        /\ msgs[i + 1].role = "tool"
        /\ msgs[i + 1].status = "error"
        /\ msgs[i + 1].name = name}

\* C16: checkForStuckPattern returns true if and only if, among the last 10
\* messages, some tool name has at least 3 adjacent pairs of an agent
\* message immediately followed by an error tool-result of that name;
\* messages before the last 10, and tool-results that do not immediately
\* follow an agent message, do not count.
C16_StuckDetection ==
    checkForStuckPattern(messages)
        <=> \E name \in {messages[i].name : i \in DOMAIN messages} :
                Cardinality(FailedPairs(messages, Len(messages) - 9, name)) >= 3

\* not stuck, although the whole transcript holds 3 failed pairs of one name
\* and the last 10 messages hold 3 error tool-results of that name: one pair
\* has left the window and one error tool-result follows another tool-result
C16_Witness ==
    /\ ~checkForStuckPattern(messages)
    /\ Len(messages) > 10
    /\ Cardinality(FailedPairs(messages, 1, "shell")) >= 3
    /\ Cardinality({i \in DOMAIN messages :
                       /\ i > Len(messages) - 10
                       /\ messages[i].role = "tool"
                       /\ messages[i].status = "error"
                       /\ messages[i].name = "shell"}) >= 3

\* the positions of the agent messages before position i
AgentsBefore(i) == {a \in 1..(i - 1) : messages[a].role = "ai"}

\* the agent message the message at position i comes after: the last one
\* before it
AnchorOf(i) == CHOOSE a \in AgentsBefore(i) : \A b \in AgentsBefore(i) : b <= a

\* scanning back from position i, an agent message is reached before any
\* other message that is not a tool result
ReachesAgentFirst(i) ==
    /\ AgentsBefore(i) # {}
    /\ \A k \in (AnchorOf(i) + 1)..(i - 1) : messages[k].role = "tool"

\* C29: a tool-result message of the transcript is a member of some group
\* exactly when it is not diagnosis-flagged and, scanning back from it, an
\* agent message is reached before any other message that is not a tool
\* result; the members of one group all come after the same agent message
\* (no agent message lies between them), those of different groups after
\* different ones; so a diagnosis-flagged tool result between two members
\* leaves them in one group.
C29_GroupMembership ==
    LET groups  == groupToolMessagesByAIMessage(messages)
        members == UNION {{groups[g][j].id : j \in DOMAIN groups[g]} : g \in DOMAIN groups}
        anchor(g) == AnchorOf(groups[g][1].id)
    IN  /\ \A i \in DOMAIN messages :
               messages[i].role = "tool" =>
                   (i \in members <=> (~messages[i].is_diagnosis /\ ReachesAgentFirst(i)))
        /\ \A g \in DOMAIN groups :
               \A j \in DOMAIN groups[g] : AnchorOf(groups[g][j].id) = anchor(g)
        /\ \A g, h \in DOMAIN groups : g # h => anchor(g) # anchor(h)

\* a group holds two members with a diagnosis-flagged tool result between
\* them, and a tool result that follows a human message is in no group
C29_Witness ==
    LET groups  == groupToolMessagesByAIMessage(messages)
        members == UNION {{groups[g][j].id : j \in DOMAIN groups[g]} : g \in DOMAIN groups}
    IN  /\ initialLen <= 2
        /\ \E g \in DOMAIN groups :
               \E j \in 1..(Len(groups[g]) - 1) :
                   /\ groups[g][j + 1].id = groups[g][j].id + 2
                   /\ messages[groups[g][j].id + 1].is_diagnosis
        /\ \E i \in DOMAIN messages :
               /\ messages[i].role = "tool"
               /\ ~messages[i].is_diagnosis
               /\ i \notin members
               /\ i > 1
               /\ messages[i - 1].role = "human"

-----------------------------------------------------------------------------
(* Properties of the audit pipeline, checked under SpecAudit *)

\* the last audit message is an agent message carrying at least one tool call
LastAsksForFollowOn(st) ==
    /\ st.auditMessages # << >>
    /\ st.auditMessages[Len(st.auditMessages)].role = "ai"
    /\ st.auditMessages[Len(st.auditMessages)].tool_calls # << >>

\* the run entered the graph at START
FromStart == nodesRun # << >> /\ nodesRun[1] = INITIALIZE

ScanFailed ==
    \E call \in {"getCodeChanges", "loadModel", "model.invoke"} : <<SCAN, call>> \in failures

\* C18: in a run from START in which the diff retrieval or the model call of
\* Scan failed, the message Scan appended to auditMessages is the
\* user-visible failure message, the run is not rejected and it has moved
\* on to the next stage.
C18_ScanDegradesWithFailureMessage ==
    (FromStart /\ Len(nodesRun) >= 2 /\ ScanFailed)
        => /\ state.auditMessages[3] = scanFailedMessage
           /\ ~rejected
           /\ stage \in {RECOMMEND, FINALIZE, END}

\* something threw inside the try block of finalizeSecurityReport
SynthesisFailed == <<FINALIZE, "parseSecurityAnalysis">> \in failures

\* C19: once Finalize has run the run is at Done, not rejected, with a
\* securityReport; when the synthesis raised an error the report is the
\* fixed fallback: no vulnerabilities, overallRisk medium and exactly one
\* recommendation, the generic manual-review one.
C19_FinalizeNeverFails ==
    /\ (\E i \in DOMAIN nodesRun : nodesRun[i] = FINALIZE)
          => /\ stage = END
             /\ ~rejected
             /\ state.securityReport # NoReport
    /\ SynthesisFailed
          => /\ stage = END
             /\ ~rejected
             /\ state.securityReport.vulnerabilities = << >>
             /\ state.securityReport.overallRisk = "medium"
             /\ state.securityReport.recommendations
                    = << "Manual review of security analysis is recommended" >>

\* the synthesis failed on an analysis that reads CRITICAL and carries two
\* bulleted recommendations
C19_Witness ==
    /\ SynthesisFailed
    /\ FromStart
    /\ stage = END
    /\ parseSecurityAnalysis(SubSeq(state.auditMessages, 1, 3)).overallRisk = "critical"
    /\ Len(parseSecurityAnalysis(SubSeq(state.auditMessages, 1, 3)).recommendations) = 2
    /\ state.securityReport.overallRisk = "medium"

\* no node of the run will run any more: the graph is at END, or a
\* rejection has left a node
RunEnded == stage = END \/ rejected

\* C20: a run from START never ends anywhere but at Done with a
\* securityReport set, whichever collaborator calls fail; a run that has not
\* ended always has its next node to run, so it goes on until Done.
C20_EveryRunEndsAtDoneWithReport ==
    (FromStart /\ RunEnded)
        => /\ stage = END
           /\ ~rejected
           /\ state.securityReport # NoReport


\* the changed-file list Scan is given is empty or only white space
NoChangedFiles(st) == trim(st.changedFiles) = ""

\* C21: a Scan step on an empty (or blank) changed-file list hands no prompt
\* to a model, appends exactly the "no changes" message and moves the stage
\* to Finalize; the Finalize step of such a run from START, when the
\* synthesis does not throw, comes without Recommend having run and sets a
\* report with overallRisk low and no recommendations.
C21_EmptyChangeAudit ==
    [][/\ (stage = SCAN /\ NoChangedFiles(state) /\ nodesRun' # nodesRun)
             => /\ prompts' = prompts
                /\ failures' = failures
                /\ state'.auditMessages = Append(state.auditMessages, noChangesMessage)
                /\ stage' = FINALIZE
       /\ (stage = FINALIZE /\ FromStart /\ NoChangedFiles(state)
             /\ nodesRun' # nodesRun /\ failures' = failures)
             => /\ nodesRun' = << INITIALIZE, SCAN, FINALIZE >>
                /\ state'.securityReport.overallRisk = "low"
                /\ state'.securityReport.recommendations = << >>]_vars

\* a run from START on an empty changed-file list is at Done with the
\* synthesized report
C21_Witness ==
    /\ stage = END
    /\ FromStart
    /\ NoChangedFiles(state)
    /\ ~SynthesisFailed
    /\ state.auditMessages[3] = noChangesMessage
    /\ state.securityReport.overallRisk = "low"

\* the retrieval of the changed-file list failed in Initialize
ChangedFilesRetrievalFailed == <<INITIALIZE, "getChangedFiles">> \in failures

\* C22: after an Initialize in which the retrieval of the changed-file list
\* failed (non-zero exit code or exception), changedFiles is the empty
\* string.
C22_ChangedFilesEmptyOnRetrievalFailure ==
    ChangedFilesRetrievalFailed => state.changedFiles = ""

-----------------------------------------------------------------------------
(* Properties of the report synthesizer, checked under SpecAudit on the    *)
(* analysis texts the audit runs accumulate                                *)

\* two code units are the same letter in either case, or the same code unit
SameIgnoringCase(a, b) ==
    \/ a = b
    \/ \E i \in 1..26 : {a, b} = {SubSeq(upperCaseLetters, i, i), SubSeq(lowerCaseLetters, i, i)}

\* the word occurs in the text at some position, letter case ignored
OccursIgnoringCase(word, text) ==
    \E i \in 1..(Len(text) - Len(word) + 1) :
        \A j \in 1..Len(word) :
            SameIgnoringCase(SubSeq(text, i + j - 1, i + j - 1), SubSeq(word, j, j))

\* some word of the tier occurs in the text, letter case ignored
TierOccurs(tier, text) == \E word \in tier : OccursIgnoringCase(word, text)

\* a step of Finalize whose synthesis does not throw
FinalizeSynthesizes == stage = FINALIZE /\ nodesRun' # nodesRun /\ failures' = failures

\* the analysis text Finalize is about to synthesize its report from
AnalysisText == joinedContents(state.auditMessages)

\* C23: the overallRisk of the report Finalize synthesizes is critical when a
\* critical-tier keyword occurs in the analysis text in any letter case,
\* else high when a high-tier keyword occurs, else medium when a
\* medium-tier keyword occurs, else low.
C23_RiskTierPriority ==
    [][FinalizeSynthesizes =>
          state'.securityReport.overallRisk =
              IF TierOccurs(criticalKeywords, AnalysisText) THEN "critical"
              ELSE IF TierOccurs(highKeywords, AnalysisText) THEN "high"
              ELSE IF TierOccurs(mediumKeywords, AnalysisText) THEN "medium"
              ELSE "low"]_vars

\* the text of the synthesized report's run, the two messages of Finalize
\* left off
SynthesizedFrom == joinedContents(SubSeq(state.auditMessages, 1, Len(state.auditMessages) - 2))

\* a report was synthesized from a text that holds a critical-tier keyword
\* in capitals and a medium-tier keyword, and its overallRisk is critical
C23_Witness ==
    /\ stage = END
    /\ ~SynthesisFailed
    /\ includes(SynthesizedFrom, "CRITICAL")
    /\ ~includes(SynthesizedFrom, "critical")
    /\ TierOccurs(mediumKeywords, SynthesizedFrom)
    /\ state.securityReport.overallRisk = "critical"

\* the lines of a text
LinesOf(text) == {split(text, "\n")[k] : k \in DOMAIN split(text, "\n")}

\* the recommendations of the securityReport, as a set
Recommended == {state.securityReport.recommendations[i] : i \in DOMAIN state.securityReport.recommendations}

\* C24: when the text the report of a run from START was synthesized from
\* holds the line "1. You should rotate credentials", the report holds the
\* recommendation
\* "You should rotate credentials": the line without its list marker.
C24_ListMarkerStripped ==
    (/\ stage = END
     /\ FromStart
     /\ ~SynthesisFailed
     /\ "1. You should rotate credentials" \in LinesOf(SynthesizedFrom))
        => "You should rotate credentials" \in Recommended

\* the words that make a line with a list marker a recommendation
AdviceWords == {"recommend", "should", "consider"}

\* the line begins with a digit, a dash or an asterisk and holds one of the
\* advice words, in any letter case, after it
IsCaptured(line) ==
    /\ line # ""
    /\ \E marker \in {"0", "1", "2", "3", "4", "5", "6", "7", "8", "9", "-", "*"} :
           SubSeq(line, 1, 1) = marker
    /\ TierOccurs(AdviceWords, SubSeq(line, 2, Len(line)))

\* the captured lines of a text, in document order
CapturedLines(text) == SelectSeq(split(text, "\n"), IsCaptured)

\* C25: the report Finalize synthesizes has one recommendation for each of
\* the first 10 lines of the analysis text that begin with a digit, dash or
\* asterisk and later hold "recommend", "should" or "consider" (in any
\* letter case), in document order, each a part of its line that holds the
\* line's advice word; no other line gives a recommendation, and there are
\* never more than 10.
C25_RecommendationSelection ==
    [][FinalizeSynthesizes =>
          LET captured == CapturedLines(AnalysisText)
              recommendations == state'.securityReport.recommendations
          IN  /\ Len(recommendations) = IF Len(captured) > 10 THEN 10 ELSE Len(captured)
              /\ Len(recommendations) <= 10
              /\ \A i \in DOMAIN recommendations :
                     /\ includes(captured[i], recommendations[i])
                     /\ TierOccurs(AdviceWords, recommendations[i])]_vars

\* a report was synthesized from a text with more than 10 captured lines
\* and a line that holds an advice word without a list marker; it has the
\* first 10 of them, the line without a marker not among them
C25_Witness ==
    /\ stage = END
    /\ ~SynthesisFailed
    /\ Len(CapturedLines(SynthesizedFrom)) > 10
    /\ "should not count" \in LinesOf(SynthesizedFrom)
    /\ Len(state.securityReport.recommendations) = 10
    /\ state.securityReport.recommendations[5] = "consider e"
    /\ state.securityReport.recommendations[6] = "Consider f"
    /\ state.securityReport.recommendations[10] = "should j"

\* C26: the summary of the report Finalize synthesizes is the analysis text
\* itself when that has 1 to 500 code units, its first 500 code units
\* followed by "..." when it has more, and the fixed default sentence when
\* it is empty; it never has more than 503 code units.
C26_SummaryBounding ==
    [][FinalizeSynthesizes =>
          LET summary == state'.securityReport.summary
          IN  /\ (Len(AnalysisText) >= 1 /\ Len(AnalysisText) <= 500) => summary = AnalysisText
              /\ Len(AnalysisText) > 500 =>
                     /\ Len(summary) = 503
                     /\ SubSeq(summary, 1, 500) = SubSeq(AnalysisText, 1, 500)
                     /\ SubSeq(summary, 501, 503) = "..."
              /\ Len(AnalysisText) = 0 =>
                     summary = "Security audit completed with no specific issues identified."
              /\ Len(summary) <= 503]_vars

\* a report was synthesized from a text of 600 code units: its summary has
\* 503 and ends with the marker
C26_Witness ==
    /\ stage = END
    /\ ~SynthesisFailed
    /\ Len(SynthesizedFrom) = 600
    /\ Len(state.securityReport.summary) = 503
    /\ SubSeq(state.securityReport.summary, 501, 503) = "..."

-----------------------------------------------------------------------------
(* Properties of the audit state, checked under SpecAudit *)

\* C27: securityReport is absent in every state in which the stage is not
\* Done and present in every state in which it is; the only step that
\* changes it is the step of Finalize, which sets it from absent to a report
\* and moves the stage to Done, so it is written once and no later step
\* changes it.
C27_ReportSetOnceByFinalize ==
    [][/\ stage # END => state.securityReport = NoReport
       /\ stage = END => state.securityReport # NoReport
       /\ state'.securityReport # state.securityReport =>
              /\ stage = FINALIZE
              /\ nodesRun' = Append(nodesRun, FINALIZE)
              /\ state.securityReport = NoReport
              /\ state'.securityReport # NoReport
              /\ stage' = END
       /\ stage' # END => state'.securityReport = NoReport
       /\ stage' = END => state'.securityReport # NoReport]_vars

\* a run from START went through Recommend-free Scan and Finalize: the report
\* is there at Done, after three nodes
C27_Witness ==
    /\ stage = END
    /\ FromStart
    /\ Len(nodesRun) = 3
    /\ state.securityReport # NoReport
    /\ state.securityReport.summary # ""

-----------------------------------------------------------------------------
(* Properties of the error-pattern analyzer, checked under SpecAnalysis *)

\* the error tool results among the analyzed messages, as positions
ErrorResults == {i \in DOMAIN analyzed : analyzed[i].role = "tool" /\ analyzed[i].status = "error"}

\* the category of the first marker the content holds in any letter case,
\* the markers tested in the order syntax, not-found, permission,
\* command-not-found, timeout
CategoryIgnoringCase(content) ==
    IF TierOccurs({"syntax error", "SyntaxError"}, content) THEN "syntax_error"
    ELSE IF TierOccurs({"not found", "No such file"}, content) THEN "file_not_found"
    ELSE IF TierOccurs({"permission", "Permission denied"}, content) THEN "permission_error"
    ELSE IF TierOccurs({"command not found", "not recognized"}, content) THEN "command_not_found"
    ELSE IF TierOccurs({"timeout", "Timeout"}, content) THEN "timeout_error"
    ELSE "unknown"

\* C28: every error tool result analyzed so far is counted under the
\* category of the first marker its content holds, letter case ignored, in
\* the order syntax, not-found, permission, command-not-found, timeout, and
\* under unknown when it holds none: the count of each category is the
\* number of analyzed error tool results of that category.
C28_ClassificationIgnoresCase ==
    \A k \in DOMAIN errorPatterns :
        errorPatterns[k].count =
            Cardinality({i \in ErrorResults :
                            CategoryIgnoringCase(analyzed[i].content) = errorPatterns[k].errorType})

\* the agent message Finalize appended on its normal path: the last but one
CompletionMessage == state.auditMessages[Len(state.auditMessages) - 1]

\* C30: at Done the securityReport has no vulnerabilities, whether it was
\* synthesized or is the fallback report, and the completion message of a
\* synthesized report says "Vulnerabilities Found: 0".
C30_NoVulnerabilitiesEver ==
    stage = END =>
        /\ state.securityReport.vulnerabilities = << >>
        /\ ~SynthesisFailed =>
               /\ CompletionMessage.tool_calls = << "security_audit_completed" >>
               /\ includes(CompletionMessage.content, "**Vulnerabilities Found:** 0\n")

\* a report synthesized from a text that names a critical SQL injection: it
\* is rated critical and lists no vulnerability
C30_Witness ==
    /\ stage = END
    /\ ~SynthesisFailed
    /\ includes(SynthesizedFrom, "CRITICAL: SQL injection in src/auth.ts")
    /\ state.securityReport.overallRisk = "critical"
    /\ state.securityReport.vulnerabilities = << >>
    /\ includes(CompletionMessage.content, "**Vulnerabilities Found:** 0\n")

-----------------------------------------------------------------------------
(* Further properties of the audit pipeline, checked under SpecAudit *)

\* C31: in a run from START the message Scan appended (the third of the
\* run) is one of the no-changes message, the failure message and a message
\* built from the model's response, and it carries no tool call; the stage
\* is never Recommend, Recommend has not run, and at most one prompt has
\* been handed to a model.
C31_RecommendNeverRuns ==
    FromStart =>
        /\ Len(nodesRun) >= 2 /\ ~rejected =>
               /\ state.auditMessages[3].role = "ai"
               /\ state.auditMessages[3].tool_calls = << >>
               /\ \/ state.auditMessages[3] = noChangesMessage
                  \/ state.auditMessages[3] = scanFailedMessage
                  \/ \E content \in ModelContents :
                         state.auditMessages[3] = AIMessage(content, << >>)
        /\ stage # RECOMMEND
        /\ \A i \in DOMAIN nodesRun : nodesRun[i] # RECOMMEND
        /\ Len(prompts) <= 1

\* a run from START is at Done after its one model call, whose response
\* Scan appended
C31_Witness ==
    /\ FromStart
    /\ stage = END
    /\ Len(prompts) = 1
    /\ nodesRun = << INITIALIZE, SCAN, FINALIZE >>
    /\ includes(state.auditMessages[3].content, "SQL injection")

\* the model call of Scan failed: loadModel or model.invoke rejected
ScanModelCallFailed ==
    <<SCAN, "loadModel">> \in failures \/ <<SCAN, "model.invoke">> \in failures

\* C37: in a run from START whose Scan model call failed (the changed-files
\* list is then not empty), Scan has set scannedFiles to the whole
\* changedFiles value and the run goes on to Finalize without being
\* rejected; the report a synthesis that does not throw gives it has
\* overallRisk low and no recommendations, as has the report of a run with
\* no changes.
C37_FailedScanReportsLowRisk ==
    FromStart =>
        /\ ScanModelCallFailed =>
               /\ state.changedFiles # ""
               /\ state.scannedFiles = state.changedFiles
               /\ state.auditMessages[3] = scanFailedMessage
               /\ ~rejected
               /\ stage \in {FINALIZE, END}
               /\ (stage = END /\ ~SynthesisFailed) =>
                      /\ state.securityReport # NoReport
                      /\ state.securityReport.overallRisk = "low"
                      /\ state.securityReport.recommendations = << >>
                      /\ state.securityReport.vulnerabilities = << >>
        /\ (stage = END /\ ~SynthesisFailed /\ state.auditMessages[3] = noChangesMessage) =>
               /\ state.securityReport.overallRisk = "low"
               /\ state.securityReport.recommendations = << >>

\* model.invoke rejected on a list of two changed files and the run has
\* ended with a synthesized report
C37_Witness ==
    /\ FromStart
    /\ stage = END
    /\ <<SCAN, "model.invoke">> \in failures
    /\ ~SynthesisFailed
    /\ state.scannedFiles = "src/auth.ts\nsrc/db.ts"
    /\ state.securityReport.overallRisk = "low"
    /\ prompts # << >>

-----------------------------------------------------------------------------
(* Further properties of the recovery strategy selector, checked under     *)
(* SpecRecovery                                                            *)

\* the invocation slot p runs an invocation made for the RecoveryState key
InFlightFor(p, key) == pc[p] # "idle" /\ Names(thread_id[p], key)

\* C32: whatever the interleaving, for every thread at most 5 invocations
\* get past the circuit breaker, the first 5 entered; only these are ever
\* suspended on loadModel or on the model call, each in-flight invocation
\* being a different one of them; an invocation entered as the 6th or later
\* returns the human-help outcome in the very step in which it enters,
\* without suspending.
C32_AtMostFiveReachTheModel ==
    [][\A key \in Keys :
          /\ Len(selected'[key]) <= 5
          /\ Len(selected'[key]) = IF started'[key] <= 5 THEN started'[key] ELSE 5
          /\ \A p \in Procs : InFlightFor(p, key)' => ord'[p] \in 1..5
          /\ \A p, q \in Procs :
                 (p # q /\ InFlightFor(p, key)' /\ InFlightFor(q, key)') => ord'[p] # ord'[q]
          /\ started'[key] # started[key] =>
                 IF started'[key] <= 5
                 THEN \E p \in Procs :
                         /\ pc[p] = "idle"
                         /\ pc'[p] = "loadModel"
                         /\ ord'[p] = started'[key]
                         /\ lastReturn' = lastReturn
                 ELSE /\ pc' = pc
                      /\ IsHelp(lastReturn')
                      /\ lastReturn'.ord = started'[key]
                      /\ lastReturn'.response = "not_called"]_vars

\* the 7th invocation of a thread has been sent away with the human-help
\* outcome while one of the first five is still suspended on the model call
C32_Witness ==
    /\ started["t1"] = 7
    /\ Len(selected["t1"]) = 5
    /\ IsHelp(lastReturn)
    /\ lastReturn.ord = 7
    /\ lastReturn.thread_id = "t1"
    /\ \E p \in Procs : pc[p] = "invoke" /\ thread_id[p] = "t1" /\ ord[p] = 4

\* the outcome is that of a successful recovery: the agent response followed
\* by the diagnosis tool-result
IsSuccess(ret) ==
    /\ ret.kind = "returned"
    /\ Len(ret.messages) = 2
    /\ ret.messages[2].role = "tool"

\* C33: in every successful outcome the retry_count recorded on the
\* diagnosis tool-result is the retryCount that invocation selected its
\* strategy from (the invocation's own ordinal on its thread), model_used is
\* the strategy at index retry_count mod 3, and retry_count lies in 1..5.
C33_RetryCountIsTheSelectingOne ==
    IsSuccess(lastReturn) =>
        /\ lastReturn.messages[2].retry_count = lastReturn.ord
        /\ lastReturn.messages[2].model_used
              = modelRotation[(lastReturn.messages[2].retry_count % 3) + 1]
        /\ lastReturn.messages[2].retry_count \in 1..5

\* C38: every invocation whose configuration carries no thread identifier
\* works on the one RecoveryState under the key "default": whichever caller
\* makes it, it adds 1 to that state's retryCount and leaves every other
\* state alone, its attempt number counts all earlier such invocations
\* (those still suspended included), and it is sent to human help once 5
\* of them, by any caller, have used up the budget.
C38_NoThreadIdSharesDefaultState ==
    [][/\ \A p \in Procs :
             (pc[p] = "idle" /\ pc'[p] # "idle" /\ thread_id'[p] = NoThreadId) =>
                 /\ retryCountOf(recoveryStates', DefaultKey)
                       = retryCountOf(recoveryStates, DefaultKey) + 1
                 /\ ord'[p] = retryCountOf(recoveryStates', DefaultKey)
                 /\ \A key \in Keys \ {DefaultKey} : recoveryStates'[key] = recoveryStates[key]
                 /\ \A q \in Procs \ {p} :
                        (pc[q] # "idle" /\ thread_id[q] = NoThreadId) => ord'[p] > ord[q]
       /\ (lastReturn' # lastReturn /\ IsHelp(lastReturn') /\ lastReturn'.thread_id = NoThreadId) =>
                 /\ retryCountOf(recoveryStates, DefaultKey) >= 5
                 /\ retryCountOf(recoveryStates', DefaultKey)
                       = retryCountOf(recoveryStates, DefaultKey) + 1
                 /\ lastReturn'.messages[1].retry_count = retryCountOf(recoveryStates', DefaultKey)
                 /\ \A key \in Keys \ {DefaultKey} : recoveryStates'[key] = recoveryStates[key]]_vars

\* two callers without thread id are suspended at the same time, as the
\* 4th and the 5th attempt on the shared state, and a third call without
\* thread id has been sent to human help; the thread t1 has not been used
C38_Witness ==
    /\ \E p, q \in Procs :
           /\ pc[p] # "idle" /\ thread_id[p] = NoThreadId /\ ord[p] = 4
           /\ pc[q] # "idle" /\ thread_id[q] = NoThreadId /\ ord[q] = 5
    /\ retryCountOf(recoveryStates, DefaultKey) = 5
    /\ started["t1"] = 0

\* a call without thread id has been sent to human help as the 6th attempt
\* on the shared state while another such call is still suspended
C38_SharedBreaker ==
    /\ IsHelp(lastReturn)
    /\ lastReturn.thread_id = NoThreadId
    /\ lastReturn.ord = 6
    /\ \E p \in Procs : pc[p] # "idle" /\ thread_id[p] = NoThreadId /\ ord[p] = 5
    /\ started["t1"] = 0

-----------------------------------------------------------------------------
(* Further properties of the escalation decision engine, checked under     *)
(* SpecTranscript                                                          *)

\* the messages at i - 1 and i are the two messages a successful smart
\* recovery appends: the agent response, then the diagnosis tool-result
RecoveryAppendedAt(msgs, i) ==
    /\ i \in 2..Len(msgs)
    /\ isAIMessage(msgs[i - 1])
    /\ isToolMessage(msgs[i])
    /\ msgs[i].is_diagnosis

\* the number of groups that have followed message i: a group begins with a
\* tool-result that comes directly after an agent message
FurtherGroups(msgs, i) ==
    Cardinality({j \in (i + 1)..Len(msgs) : isToolMessage(msgs[j]) /\ isAIMessage(msgs[j - 1])})

\* C34: on every transcript that holds the two messages of a successful
\* smart recovery, with fewer than two further groups containing a
\* tool-result after the diagnosis message, shouldDiagnoseError is false;
\* the transcripts of a run are all the extensions of its first one.
C34_CooldownAfterRecovery ==
    \A i \in 1..Len(messages) :
        (RecoveryAppendedAt(messages, i) /\ FurtherGroups(messages, i) < 2)
            => shouldDiagnoseError(messages) = FALSE

\* the recovery's two messages were appended to the long conversation, one
\* further group has followed, the same command has failed again: the stuck
\* pattern is there and the cooldown alone keeps the answer at false
C34_Witness ==
    /\ initialLen = Len(LongHistoryKinds)
    /\ Len(messages) = initialLen + 4
    /\ RecoveryAppendedAt(messages, initialLen + 2)
    /\ FurtherGroups(messages, initialLen + 2) = 1
    /\ checkForStuckPattern(messages)
    /\ Len(groupToolMessagesByAIMessage(messages)) >= 2
    /\ shouldDiagnoseError(messages) = FALSE

\* the cooldown has run out: two further groups have followed a recovery's
\* messages, none of them with a diagnosis, and diagnosis is warranted again
C34_CooldownEnds ==
    /\ \E i \in 1..Len(messages) :
           /\ RecoveryAppendedAt(messages, i)
           /\ i > initialLen
           /\ FurtherGroups(messages, i) = 2
    /\ shouldDiagnoseError(messages)

\* shouldDiagnoseError with its last rule, the one on the last 3 groups,
\* deleted: what is left is lines 164-183 followed by return false
DiagnoseWithoutThreeGroupRule(msgs) ==
    LET toolGroups == groupToolMessagesByAIMessage(msgs) IN
    IF Len(toolGroups) < 2 THEN FALSE
    ELSE IF hasRecentDiagnosisToolCall(msgs, CooldownGroups) THEN FALSE
    ELSE IF checkForStuckPattern(msgs) THEN TRUE
    ELSE Len(toolGroups) >= 2 /\ everyRateAtLeast(sliceLast(toolGroups, 2), IMMEDIATE_THRESHOLD)

\* C35: on every transcript shouldDiagnoseError returns what the function
\* without the three-group rule returns, and whenever the last 3 groups each
\* have error rate >= 0.6 the last 2 groups each have error rate >= 0.5.
C35_ThreeGroupRuleNeverDecides ==
    LET groups == groupToolMessagesByAIMessage(messages)
    IN  /\ shouldDiagnoseError(messages) = DiagnoseWithoutThreeGroupRule(messages)
        /\ (Len(groups) >= 3 /\ LastGroupsAtLeast(groups, 3, 6))
               => LastGroupsAtLeast(groups, 2, 5)

\* the three-group rule would apply (3 groups at >= 0.6, one of them below
\* 1), neither the cooldown nor the stuck pattern has answered before it
C35_Witness ==
    LET groups == groupToolMessagesByAIMessage(messages)
    IN  /\ Len(groups) >= 3
        /\ LastGroupsAtLeast(groups, 3, 6)
        /\ Len(groups[Len(groups)]) = 3
        /\ Errors(groups[Len(groups)]) = 2
        /\ ~InCooldown(messages)
        /\ ~checkForStuckPattern(messages)
        /\ shouldDiagnoseError(messages)

\* the stuck pattern, read off the transcript: among the last 10 messages
\* some tool name has 3 agent messages each directly followed by an error
\* tool-result of that name
StuckDetected(msgs) ==
    \E name \in {msgs[i].name : i \in DOMAIN msgs} :
        Cardinality(FailedPairs(msgs, Len(msgs) - 9, name)) >= 3

\* C36: on every transcript on which shouldDiagnoseError returns true and
\* the stuck pattern is detected, shouldUseSmartRecovery returns true.
C36_StuckGoesToSmartRecovery ==
    (shouldDiagnoseError(messages) /\ StuckDetected(messages))
        => shouldUseSmartRecovery(messages)

\* diagnosis is warranted and the agent is stuck, with fewer than 2
\* diagnoses in the last 20 messages and the last 3 groups not all at 0.8:
\* the stuck pattern alone sends the transcript to smart recovery
C36_Witness ==
    /\ shouldDiagnoseError(messages)
    /\ StuckDetected(messages)
    /\ DiagnosesInLast20(messages) < 2
    /\ ~LastGroupsAtLeast(groupToolMessagesByAIMessage(messages), 3, 8)
    /\ shouldUseSmartRecovery(messages)

-----------------------------------------------------------------------------
(* Further properties of the error-pattern analyzer, checked under         *)
(* SpecAnalysis                                                            *)

\* the analyzed message at position i is the last one counted in the
\* category: the entry has lastOccurrence i - 1, the index of the code. The
\* message analyzed last of all is always the last of its category.
ClassifiedAs(i, type) ==
    \E k \in DOMAIN errorPatterns :
        errorPatterns[k].lastOccurrence = i - 1 /\ errorPatterns[k].errorType = type

\* the content holds one of the two syntax markers as the code spells them
HoldsSyntaxMarker(content) == includes(content, "syntax error") \/ includes(content, "SyntaxError")

\* the categories other than the given ones
OtherCategories(types) ==
    {"syntax_error", "file_not_found", "permission_error", "command_not_found",
     "timeout_error", "unknown"} \ types

\* C39 as stated: every error tool-result whose content contains "command
\* not found" is classified as file_not_found and never as
\* command_not_found, and command_not_found is assigned only to contents
\* that contain "not recognized".
C39_CommandNotFoundShadowed ==
    \A i \in ErrorResults :
        /\ includes(analyzed[i].content, "command not found") =>
               \A type \in OtherCategories({"file_not_found"}) : ~ClassifiedAs(i, type)
        /\ ClassifiedAs(i, "command_not_found") => includes(analyzed[i].content, "not recognized")

\* C39 amended: an error tool-result whose content contains "command not
\* found" is classified as syntax_error when the content also holds a
\* syntax marker and as file_not_found otherwise, never as
\* command_not_found; command_not_found is assigned only to contents that
\* contain "not recognized" and neither "not found" nor an earlier marker.
C39_CommandNotFoundShadowedUnlessSyntax ==
    \A i \in ErrorResults :
        /\ includes(analyzed[i].content, "command not found") =>
               /\ ~ClassifiedAs(i, "command_not_found")
               /\ IF HoldsSyntaxMarker(analyzed[i].content)
                  THEN \A type \in OtherCategories({"syntax_error"}) : ~ClassifiedAs(i, type)
                  ELSE \A type \in OtherCategories({"file_not_found"}) : ~ClassifiedAs(i, type)
        /\ ClassifiedAs(i, "command_not_found") =>
               /\ includes(analyzed[i].content, "not recognized")
               /\ ~includes(analyzed[i].content, "not found")
               /\ ~HoldsSyntaxMarker(analyzed[i].content)

\* three error results have been analyzed: "command not found" alone is
\* under file_not_found, "command not found" after a syntax marker is under
\* syntax_error, and "not recognized" is under command_not_found
C39_Witness ==
    /\ Len(analyzed) = 3
    /\ ErrorResults = {1, 2, 3}
    /\ analyzed[1].content = "bash: foo: command not found"
    /\ ClassifiedAs(1, "file_not_found")
    /\ includes(analyzed[2].content, "command not found")
    /\ ClassifiedAs(2, "syntax_error")
    /\ includes(analyzed[3].content, "not recognized")
    /\ ClassifiedAs(3, "command_not_found")

\* the member of a set of positions that has n - 1 members before it
nthOf(positions, n) ==
    CHOOSE i \in positions : Cardinality({j \in positions : j < i}) = n - 1

\* the positions of the analyzed error results of a category
ResultsOf(type) == {i \in ErrorResults : errorType(analyzed[i].content) = type}

\* the last 3 of them
MostRecentOf(type) ==
    {i \in ResultsOf(type) : Cardinality({j \in ResultsOf(type) : j > i}) < 3}

\* the commands of the 3 most recent results of a category, oldest first
MostRecentCommands(type) ==
    [n \in 1..Cardinality(MostRecentOf(type)) |->
        failedCommand(analyzed[nthOf(MostRecentOf(type), n)])]

\* how often a command string has failed, and where it failed first
TimesFailed(command) ==
    Cardinality({i \in ErrorResults : failedCommand(analyzed[i]) = command})

FirstFailure(command) ==
    nthOf({i \in ErrorResults : failedCommand(analyzed[i]) = command}, 1)

\* the command strings that have failed at least 2 times
RepeatedSet ==
    {failedCommand(analyzed[i]) : i \in {j \in ErrorResults : TimesFailed(failedCommand(analyzed[j])) >= 2}}

\* the place of a repeated command in the report: behind the commands that
\* failed more often and behind those that failed as often and earlier
RankOf(command) ==
    1 + Cardinality({other \in RepeatedSet :
                        \/ TimesFailed(other) > TimesFailed(command)
                        \/ /\ TimesFailed(other) = TimesFailed(command)
                           /\ FirstFailure(other) < FirstFailure(command)})

\* the lines of the returned text
ReportLines == split(analysis, "\n")

\* where the heading of the second part stands among the lines
RepetitionHeading ==
    nthOf({l \in DOMAIN ReportLines : ReportLines[l] = "## Command Repetition Analysis:"}, 1)

\* the counts of all categories, added up
CountsSum ==
    LET sum[k \in 0..Len(errorPatterns)] ==
            IF k = 0 THEN 0 ELSE sum[k - 1] + errorPatterns[k].count
    IN  sum[Len(errorPatterns)]

\* C40: every error tool-result analyzed is counted once in one category
\* (no category twice in the Map, each count the number of results of the
\* category, the counts adding up to the number of error results); the
\* returned text lists under each category the commands of its 3 most
\* recent results and no other, and under the repetition heading the
\* command strings that failed at least 2 times and no other, each with its
\* count, the more frequent first and those of equal count in the order in
\* which they first failed.
C40_RepeatedCommandReport ==
    /\ \A k, l \in DOMAIN errorPatterns :
           errorPatterns[k].errorType = errorPatterns[l].errorType => k = l
    /\ \A k \in DOMAIN errorPatterns :
           errorPatterns[k].count = Cardinality(ResultsOf(errorPatterns[k].errorType))
    /\ \A i \in ErrorResults :
           \E k \in DOMAIN errorPatterns : errorPatterns[k].errorType = errorType(analyzed[i].content)
    /\ CountsSum = Cardinality(ErrorResults)
    /\ analysis # "" =>
           /\ \A k \in DOMAIN errorPatterns :
                  /\ ReportLines[2 * k] =
                         "- **" \o toUpperCase(replaceFirstUnderscore(errorPatterns[k].errorType))
                             \o "**: " \o ToString(Cardinality(ResultsOf(errorPatterns[k].errorType)))
                             \o " occurrences"
                  /\ ReportLines[2 * k + 1] =
                         "  - Commands: " \o join(MostRecentCommands(errorPatterns[k].errorType), ", ")
           /\ IF RepeatedSet = {}
              THEN /\ ReportLines[RepetitionHeading + 1] = "- No obviously repeated failed commands detected"
                   /\ Len(ReportLines) = RepetitionHeading + 2
              ELSE /\ ReportLines[RepetitionHeading + 1] = "- **REPEATED FAILED COMMANDS** (avoid these):"
                   /\ \A command \in RepeatedSet :
                          ReportLines[RepetitionHeading + 1 + RankOf(command)] =
                              "  - \"" \o command \o "\": failed "
                                  \o ToString(TimesFailed(command)) \o " times"
                   /\ Len(ReportLines) = RepetitionHeading + 2 + Cardinality(RepeatedSet)

\* five failures without a marker: the category lists the last 3 commands
\* of its 5, and the command that failed 3 times stands before the one that
\* failed twice although that one failed first
C40_Witness ==
    /\ Len(analyzed) = 5
    /\ failedCommands = << "shell", "unknown", "unknown", "shell", "unknown" >>
    /\ includes(analysis, "- **UNKNOWN**: 5 occurrences\n  - Commands: unknown, shell, unknown\n")
    /\ includes(analysis, "  - \"unknown\": failed 3 times\n  - \"shell\": failed 2 times\n")

\* two commands that failed twice each stand in the order in which they
\* first failed
C40_TieInFirstSeenOrder ==
    /\ failedCommands = << "rm -rf build", "shell", "shell", "rm -rf build" >>
    /\ includes(analysis, "  - \"rm -rf build\": failed 2 times\n  - \"shell\": failed 2 times\n")

=============================================================================
